---- MODULE Spec2Model ----
(***************************************************************************)
(* Status harvester: the session, live-ingestion and history-drain         *)
(* pipeline of the interactive downloader (connectToWhatsApp,              *)
(* processStatusMessage, getContactInfo, sanitizeFilename, start).         *)
(*                                                                         *)
(* Strings that the code computes with (jids, names, ids, captions, texts,  *)
(* file names) are sequences of one-character strings.  Every await of the *)
(* code is a separate step of the task that runs it, and the code between  *)
(* two awaits is one atomic step, as on the JavaScript event loop.         *)
(*                                                                         *)
(* The transport (the socket library) is the environment: a socket reports *)
(* 'open' at most once and 'close' once, always with a lastDisconnect; it  *)
(* delivers contacts, live messages and history replays while it is open;  *)
(* a download returns a stream or throws; the stream yields a chunk, ends  *)
(* or fails; fs.writeFileSync succeeds or throws; useMultiFileAuthState    *)
(* resolves.  A connection.update that carries neither 'open' nor 'close'  *)
(* (a QR code) changes no state and is not a step.  An error thrown out of *)
(* an async handler is an unhandled rejection: the runtime either only     *)
(* reports it or ends the process.                                         *)
(***************************************************************************)
EXTENDS Integers, Sequences, FiniteSets, TLC

\* ------------------------------------------------------------------ bounds
\* connectToWhatsApp calls allowed in one behaviour (the code has no cap)
MaxConnects == 2
\* handler invocations (messages.upsert + messaging-history.set) in one behaviour
MaxTasks == 1
\* the same, in the specification of the interleavings of two handlers
MaxRaceTasks == 2
\* messages.upsert notifications delivered after a history replay, in the
\* specification of a drain with live traffic
MaxMixLive == 1
\* resolution of Math.random(): the values k / RandRes, 0 <= k < RandRes
RandRes == 2

\* length of the longest :filename parameter of a GET /files request
MaxReqLen == 4
\* GET /files requests in one behaviour
MaxRequests == 1

\* chunks a fetch stream of the backend yields at most
MaxChunks == 1

\* number of poll runs of the viewer
MaxPolls == 2

\* length of the longest string given to sanitizeFilename on its own
MaxStrLen == 3

\* length of the long contact name among the inputs (longer than MaxNameLen)
LongLen == 70

\* ------------------------------------------------------- program constants
\* default maxLength of sanitizeFilename
MaxNameLen == 50
\* m.key.id.substring(0, 8)
ShortIdLen == 8
\* DisconnectReason.loggedOut
LoggedOut == 401
\* a status code of a disconnect that is not a logout (connectionClosed)
ConnectionClosed == 428
\* parseInt(seconds) * 1000
MsPerSecond == 1000

\* the status of a response that sends a file, and of the error callback
StatusOk == 200
StatusNotFound == 404

\* ----------------------------------------------------------- JS "absent"
\* an absent string; an absent object is the empty sequence, a present one <<o>>
Undefined == <<"undefined">>

\* --------------------------------------------------------------- strings
Whitespace == {" ", "\t"}
\* the class [\/\\?%*:|"<>] of sanitizeFilename
Hostile == {"/", "\\", "?", "%", "*", ":", "|", "\"", "<", ">"}

Min(a, b) == IF a <= b THEN a ELSE b

\* str.substring(0, n)
Substring0(str, n) == SubSeq(str, 1, Min(Len(str), n))

\* str.replace(/[\/\\?%*:|"<>]/g, '')
StripHostile(str) == SelectSeq(str, LAMBDA c : c \notin Hostile)

\* str.replace(/\s+/g, '_'): every maximal run of whitespace becomes one '_'
RECURSIVE CollapseWs(_)
CollapseWs(str) ==
    IF str = <<>> THEN <<>>
    ELSE IF Head(str) \in Whitespace
         THEN IF Len(str) > 1 /\ str[2] \in Whitespace
              THEN CollapseWs(Tail(str))
              ELSE <<"_">> \o CollapseWs(Tail(str))
         ELSE <<Head(str)>> \o CollapseWs(Tail(str))

\* sanitizeFilename that does not cut its result
sanitizeNoTruncate(str, maxLength) ==
    IF str = Undefined \/ str = <<>> THEN <<>>
    ELSE CollapseWs(StripHostile(str))

sanitizeFilename(str, maxLength) ==
    IF str = Undefined \/ str = <<>> THEN <<>>
    ELSE Substring0(CollapseWs(StripHostile(str)), maxLength)

\* jid.split('@')[0]
RECURSIVE SplitAt0(_)
SplitAt0(jid) ==
    IF jid = <<>> \/ Head(jid) = "@" THEN <<>>
    ELSE <<Head(jid)>> \o SplitAt0(Tail(jid))

\* a JS string is truthy unless it is undefined or the empty string
Truthy(v) == v # Undefined /\ v # <<>>

\* a || b
OrElse(a, b) == IF Truthy(a) THEN a ELSE b

\* ------------------------------------------------------------ the inputs
StatusBroadcast == <<"status@broadcast">>

\* a sender jid, user part "98"
J1 == <<"9", "8", "@", "s">>
\* a second sender jid, user part "7"
J2 == <<"7", "@", "s">>
Jids == {J1, J2}

\* contact objects of contacts.upsert
cAli == [id |-> J1, name |-> <<"A", "l", "i">>, notify |-> Undefined]

\* contacts with a notify name only, with both names, with an empty name, and
\* with no name at all
cNotify == [id |-> J1, name |-> Undefined, notify |-> <<"A", "l">>]
cBoth == [id |-> J1, name |-> <<"A", "l", "i">>, notify |-> <<"A", "l">>]
cEmptyName == [id |-> J1, name |-> <<>>, notify |-> <<"A", "l">>]
cBare == [id |-> J1, name |-> Undefined, notify |-> Undefined]
\* a contact of the second jid
cTwo == [id |-> J2, name |-> <<"B", "o">>, notify |-> Undefined]

\* a contact whose name is LongLen characters long, with blanks, runs of blanks
\* and characters of the class Hostile in it
LongName ==
    [i \in 1..LongLen |->
        IF i % 7 \in {0, 1} THEN " " ELSE IF i = 5 THEN "/" ELSE IF i = 11 THEN ":" ELSE "n"]
cLong == [id |-> J1, name |-> LongName, notify |-> Undefined]

\* a text status whose sender is in m.key.participant
mText ==
    [id |-> <<"a", "b", "c", "d", "1", "2", "3", "4", "x", "y">>,
     remoteJid |-> StatusBroadcast, participant |-> Undefined, keyParticipant |-> J1,
     image |-> <<>>, text |-> <<"h", "e", "l", "l", "o">>, conversation |-> Undefined,
     video |-> FALSE]
\* an image status with a caption, sender in m.participant
mImage ==
    [id |-> <<"i", "m", "g", "0", "0", "0", "0", "1", "z">>,
     remoteJid |-> StatusBroadcast, participant |-> J1, keyParticipant |-> Undefined,
     image |-> <<[caption |-> <<"h", "/", "i">>]>>, text |-> Undefined,
     conversation |-> Undefined, video |-> FALSE]
\* a text message of an ordinary chat (not broadcast-scoped)
mChat ==
    [id |-> <<"c", "h", "a", "t", "0", "0", "0", "0", "1">>,
     remoteJid |-> J1, participant |-> Undefined, keyParticipant |-> Undefined,
     image |-> <<>>, text |-> <<"y", "o">>, conversation |-> Undefined, video |-> FALSE]
\* a video status
mVideo ==
    [id |-> <<"v", "i", "d", "0", "0", "0", "0", "1">>,
     remoteJid |-> StatusBroadcast, participant |-> J1, keyParticipant |-> Undefined,
     image |-> <<>>, text |-> Undefined, conversation |-> Undefined, video |-> TRUE]
\* a status of another kind (a voice note): no image, text or video payload
mOther ==
    [id |-> <<"a", "u", "d", "0", "0", "0", "0", "1">>,
     remoteJid |-> StatusBroadcast, participant |-> J1, keyParticipant |-> Undefined,
     image |-> <<>>, text |-> Undefined, conversation |-> Undefined, video |-> FALSE]
\* an image status that has neither m.participant nor m.key.participant
mNoSender ==
    [id |-> <<"n", "o", "s", "0", "0", "0", "0", "1">>,
     remoteJid |-> StatusBroadcast, participant |-> Undefined, keyParticipant |-> Undefined,
     image |-> <<[caption |-> Undefined]>>, text |-> Undefined,
     conversation |-> Undefined, video |-> FALSE]
\* a plain text status: its text is in message.conversation
mPlain ==
    [id |-> <<"p", "l", "n", "0", "0", "0", "0", "1">>,
     remoteJid |-> StatusBroadcast, participant |-> J1, keyParticipant |-> Undefined,
     image |-> <<>>, text |-> Undefined, conversation |-> <<"h", "e", "y">>,
     video |-> FALSE]
\* an extended text status whose id has a slash among its first 8 characters
mSlashId ==
    [id |-> <<"i", "d", "/", "0", "0", "0", "0", "1", "9">>,
     remoteJid |-> StatusBroadcast, participant |-> J1, keyParticipant |-> Undefined,
     image |-> <<>>, text |-> <<"h", "i">>, conversation |-> Undefined, video |-> FALSE]

\* an image status whose caption is long
mLongCap ==
    [id |-> <<"c", "a", "p", "0", "0", "0", "0", "1", "7">>,
     remoteJid |-> StatusBroadcast, participant |-> J1, keyParticipant |-> Undefined,
     image |-> <<[caption |-> LongName]>>, text |-> Undefined,
     conversation |-> Undefined, video |-> FALSE]

\* a status whose payload has both an image message and an extended text
mBoth ==
    [id |-> <<"b", "o", "t", "h", "0", "0", "0", "1", "5">>,
     remoteJid |-> StatusBroadcast, participant |-> J1, keyParticipant |-> Undefined,
     image |-> <<[caption |-> <<"c">>]>>, text |-> <<"t", "w", "o">>,
     conversation |-> Undefined, video |-> FALSE]

\* another text status of the same sender, whose id has the first 8
\* characters of mText's id
mTwin ==
    [id |-> <<"a", "b", "c", "d", "1", "2", "3", "4", "z", "z">>,
     remoteJid |-> StatusBroadcast, participant |-> J1, keyParticipant |-> Undefined,
     image |-> <<>>, text |-> <<"b", "y", "e">>, conversation |-> Undefined,
     video |-> FALSE]

\* the state refers to a message by its key; Msg gives the message object
Msgs == {"mText", "mImage", "mChat", "mVideo", "mOther", "mNoSender", "mPlain", "mSlashId",
         "mLongCap", "mBoth", "mTwin"}
Msg(key) ==
    CASE key = "mText" -> mText
      [] key = "mImage" -> mImage
      [] key = "mChat" -> mChat
      [] key = "mVideo" -> mVideo
      [] key = "mOther" -> mOther
      [] key = "mNoSender" -> mNoSender
      [] key = "mPlain" -> mPlain
      [] key = "mSlashId" -> mSlashId
      [] key = "mLongCap" -> mLongCap
      [] key = "mBoth" -> mBoth
      [] key = "mTwin" -> mTwin

\* the message arrays of messages.upsert notifications
LiveBatches == {<<"mImage">>, <<"mChat", "mText">>}
\* the message arrays of messaging-history.set notifications
HistoryBatches == {<<"mChat">>, <<"mText", "mChat", "mImage", "mText">>}
\* the contact arrays of contacts.upsert notifications
ContactBatches == {<<cAli>>}
\* the arrays of a run that delivers statuses of every kind
KindLiveBatches == {<<"mVideo", "mOther">>, <<"mNoSender", "mImage">>, <<"mPlain", "mText">>}
KindHistoryBatches == {<<"mNoSender", "mVideo", "mPlain">>, <<"mOther", "mText">>}
\* the arrays of a run whose file names are built from a long contact name, a
\* long caption, an id with a reserved character, a payload of two kinds and
\* two ids with the same first 8 characters
NamingContactBatches == {<<cLong>>}
NamingLiveBatches == {<<"mSlashId">>, <<"mLongCap">>, <<"mBoth">>, <<"mText", "mTwin">>}
NamingHistoryBatches == {<<"mLongCap", "mSlashId">>}
\* the arrays of a run that fills the contact directory in every way
DirContactBatches ==
    {<<cNotify>>, <<cBoth>>, <<cEmptyName>>, <<cAli, cBare>>, <<cTwo>>, <<cTwo, cNotify>>}
DirLiveBatches == {<<"mText">>, <<"mChat", "mSlashId">>}
\* the answers given to getInteractiveSettings, in seconds / items
Answers == {[minDelay |-> 1, maxDelay |-> 3, batchSize |-> 2, batchDelay |-> 30]}

\* ------------------------------------------------------- pure functions
\* getInteractiveSettings: parseInt(answer) * 1000 for the three delays
getInteractiveSettings(a) ==
    [minDelay |-> a.minDelay * MsPerSecond,
     maxDelay |-> a.maxDelay * MsPerSecond,
     batchSize |-> a.batchSize,
     batchDelay |-> a.batchDelay * MsPerSecond]

\* sock.contacts of a socket on which no contacts.upsert has run
NoContacts == [j \in Jids |-> <<>>]

\* getContactInfo that prefers the notify name to the contact's name
getContactInfoNotifyFirst(jid, contacts) ==
    LET contact == contacts[jid]
        cname == IF contact = <<>> THEN Undefined ELSE contact[1].name
        cnotify == IF contact = <<>> THEN Undefined ELSE contact[1].notify
    IN  OrElse(cnotify, OrElse(cname, SplitAt0(jid)))

\* getContactInfo(jid, sock).name, contacts being sock.contacts
getContactInfo(jid, contacts) ==
    LET contact == contacts[jid]
        cname == IF contact = <<>> THEN Undefined ELSE contact[1].name
        cnotify == IF contact = <<>> THEN Undefined ELSE contact[1].notify
    IN  OrElse(cname, OrElse(cnotify, SplitAt0(jid)))

\* SenderJid that falls back to a known jid when the message names no sender
SenderJidOrKnown(m) == OrElse(m.participant, OrElse(m.keyParticipant, J1))

\* m.participant || m.key.participant
SenderJid(m) == OrElse(m.participant, m.keyParticipant)

\* the directory prefix of every file name
DownloadDir == <<"downloads/">>

\* Classify with an id prefix one character too long
ClassifyLongId(m, contacts) ==
    LET senderJid == OrElse(m.participant, m.keyParticipant)
        name == getContactInfo(senderJid, contacts)
        shortId == Substring0(m.id, ShortIdLen + 1)
        sanitizedName == sanitizeFilename(name, MaxNameLen)
    IN  IF ~Truthy(senderJid) THEN [kind |-> "nosender", filename |-> <<>>]
        ELSE IF m.image # <<>>
        THEN [kind |-> "image",
              filename |-> DownloadDir \o sanitizedName \o <<"_">> \o shortId \o <<"_">>
                           \o sanitizeFilename(OrElse(m.image[1].caption, <<>>), MaxNameLen)
                           \o <<".", "j", "p", "g">>]
        ELSE IF Truthy(m.text)
        THEN [kind |-> "text",
              filename |-> DownloadDir \o sanitizedName \o <<"_">> \o shortId
                           \o <<".", "t", "x", "t">>]
        ELSE IF m.video THEN [kind |-> "video", filename |-> <<>>]
        ELSE [kind |-> "other", filename |-> <<>>]

\* the synchronous head of processStatusMessage(m, sock): what it decides
\* before its first await, and the file name it computes
Classify(m, contacts) ==
    LET senderJid == SenderJid(m)
        name == getContactInfo(senderJid, contacts)
        shortId == Substring0(m.id, ShortIdLen)
        sanitizedName == sanitizeFilename(name, MaxNameLen)
    IN  IF ~Truthy(senderJid) THEN [kind |-> "nosender", filename |-> <<>>]
        ELSE IF m.image # <<>>
        THEN [kind |-> "image",
              filename |-> DownloadDir \o sanitizedName \o <<"_">> \o shortId \o <<"_">>
                           \o sanitizeFilename(OrElse(m.image[1].caption, <<>>), MaxNameLen)
                           \o <<".", "j", "p", "g">>]
        ELSE IF Truthy(m.text)
        THEN [kind |-> "text",
              filename |-> DownloadDir \o sanitizedName \o <<"_">> \o shortId
                           \o <<".", "t", "x", "t">>]
        ELSE IF m.video THEN [kind |-> "video", filename |-> <<>>]
        ELSE [kind |-> "other", filename |-> <<>>]

\* m.key.remoteJid === 'status@broadcast'
IsStatus(key) == Msg(key).remoteJid = StatusBroadcast

\* Statuses that keeps every message of the replay
StatusesUnfiltered(messages) == messages

\* messages.filter(m => m.key.remoteJid === 'status@broadcast')
Statuses(messages) == SelectSeq(messages, IsStatus)

\* (i + 1) % config.batchSize === 0 && (i + 1) < statuses.length, n = i + 1
IsBatchPause(n, len, config) == n % config.batchSize = 0 /\ n < len

\* Math.floor(Math.random() * (maxDelay - minDelay + 1)) + minDelay, with
\* Math.random() = k / RandRes
JitterDelay(k, config) ==
    ((k * (config.maxDelay - config.minDelay + 1)) \div RandRes) + config.minDelay

\* ShouldReconnect that reconnects after a logout too
ShouldReconnectAlways(code) == TRUE

\* ShouldReconnect that takes a close without a status code for a logout
ShouldReconnectOnlyWithCode(code) == code # <<>> /\ code # <<LoggedOut>>

\* (lastDisconnect.error)?.output?.statusCode !== DisconnectReason.loggedOut;
\* code is <<>> when the error or its output is absent
ShouldReconnect(code) == code # <<LoggedOut>>

\* ------------------------------------------------------------- the state
VARIABLES
    socks,        \* the sockets made so far: [state, config, contacts]; the last is current
    pending,      \* config arguments of connectToWhatsApp calls awaiting useMultiFileAuthState
    connectCalls, \* number of calls of connectToWhatsApp so far
    loggedOut,    \* a 'close' update with status code loggedOut has been handled
    lastDisconnect, \* <<code>>: the newest socket was closed with that status code
    tasks,        \* the invocations of the messages.upsert / messaging-history.set handlers
    files,        \* the download directory: file name -> [content, writes, of]
    names,        \* per message: the file names its processings have derived so far
    alive         \* the process has not been ended by an unhandled rejection

vars == <<socks, pending, connectCalls, loggedOut, lastDisconnect, tasks, files, names, alive>>

\* the handler invocation at its start
NewTask(kind, s, msgs) ==
    [kind |-> kind, sock |-> s, msgs |-> msgs, i |-> 0, pc |-> "start",
     filename |-> <<>>, last |-> "none", failed |-> FALSE,
     nBatch |-> 0, nJitter |-> 0, pause |-> <<>>]

\* fs.writeFileSync(name, content) that does not throw, called for the message
\* with key m; writes counts the calls for this name, of collects their messages
WriteFile(fs, name, content, m) ==
    IF name \in DOMAIN fs
    THEN [fs EXCEPT ![name] = [content |-> content, writes |-> @.writes + 1,
                               of |-> @.of \cup {m}]]
    ELSE fs @@ (name :> [content |-> content, writes |-> 1, of |-> {m}])

\* the end of one processStatusMessage call of task t, with its outcome:
\* "skipped" (no sender, video, other kind), "exists" (file already there),
\* "wrote", "failed" (the catch block took an error of the download or of the
\* write) or "typeerror" (the catch block took the TypeError of line 161);
\* last is the outcome of the task's latest call, failed: some call "failed"
Settled(t, outcome) ==
    [t EXCEPT !.pc = "resolved", !.filename = <<>>, !.last = outcome,
              !.failed = @ \/ outcome = "failed"]

\* StartItem that fetches a video like an image
StartItemFetchesVideo(t, fs, nm, ok) ==
    LET key == t.msgs[t.i]
        m == Msg(key)
        c == Classify(m, socks[t.sock].contacts)
        named == [nm EXCEPT ![key] = @ \cup {c.filename}]
    IN  IF c.kind \notin {"image", "text", "video"}
        THEN [t |-> Settled(t, "skipped"), files |-> fs, names |-> nm]
        ELSE IF c.filename \in DOMAIN fs
        THEN [t |-> Settled(t, "exists"), files |-> fs, names |-> named]
        ELSE IF c.kind \in {"image", "video"}
        THEN [t |-> [t EXCEPT !.pc = "download", !.filename = c.filename],
              files |-> fs, names |-> named]
        ELSE IF ok
        THEN [t |-> Settled(t, "wrote"), files |-> WriteFile(fs, c.filename, m.text, key),
              names |-> named]
        ELSE [t |-> Settled(t, "failed"), files |-> fs, names |-> named]

\* StartItem that writes a text status without looking for its file
StartItemWritesAlways(t, fs, nm, ok) ==
    LET key == t.msgs[t.i]
        m == Msg(key)
        c == Classify(m, socks[t.sock].contacts)
        named == [nm EXCEPT ![key] = @ \cup {c.filename}]
    IN  IF c.kind \notin {"image", "text"}
        THEN [t |-> Settled(t, "skipped"), files |-> fs, names |-> nm]
        ELSE IF c.kind = "image" /\ c.filename \in DOMAIN fs
        THEN [t |-> Settled(t, "exists"), files |-> fs, names |-> named]
        ELSE IF c.kind = "image"
        THEN [t |-> [t EXCEPT !.pc = "download", !.filename = c.filename],
              files |-> fs, names |-> named]
        ELSE IF ok
        THEN [t |-> Settled(t, "wrote"), files |-> WriteFile(fs, c.filename, m.text, key),
              names |-> named]
        ELSE [t |-> Settled(t, "failed"), files |-> fs, names |-> named]

\* StartItem that looks for the file of a text status only
StartItemFetchFirst(t, fs, nm, ok) ==
    LET key == t.msgs[t.i]
        m == Msg(key)
        c == Classify(m, socks[t.sock].contacts)
        named == [nm EXCEPT ![key] = @ \cup {c.filename}]
    IN  IF c.kind \notin {"image", "text"}
        THEN [t |-> Settled(t, "skipped"), files |-> fs, names |-> nm]
        ELSE IF c.kind = "image"
        THEN [t |-> [t EXCEPT !.pc = "download", !.filename = c.filename],
              files |-> fs, names |-> named]
        ELSE IF c.filename \in DOMAIN fs
        THEN [t |-> Settled(t, "exists"), files |-> fs, names |-> named]
        ELSE IF ok
        THEN [t |-> Settled(t, "wrote"), files |-> WriteFile(fs, c.filename, m.text, key),
              names |-> named]
        ELSE [t |-> Settled(t, "failed"), files |-> fs, names |-> named]

\* processStatusMessage(t.msgs[t.i], sock) up to its first await or its return;
\* ok: fs.writeFileSync does not throw
StartItem(t, fs, nm, ok) ==
    LET key == t.msgs[t.i]
        m == Msg(key)
        c == Classify(m, socks[t.sock].contacts)
        named == [nm EXCEPT ![key] = @ \cup {c.filename}]
    IN  IF c.kind \notin {"image", "text"}
        THEN [t |-> Settled(t, "skipped"), files |-> fs, names |-> nm]
        ELSE IF c.filename \in DOMAIN fs
        THEN [t |-> Settled(t, "exists"), files |-> fs, names |-> named]
        ELSE IF c.kind = "image"
        THEN [t |-> [t EXCEPT !.pc = "download", !.filename = c.filename],
              files |-> fs, names |-> named]
        ELSE IF ok
        THEN [t |-> Settled(t, "wrote"), files |-> WriteFile(fs, c.filename, m.text, key),
              names |-> named]
        ELSE [t |-> Settled(t, "failed"), files |-> fs, names |-> named]

\* index of the first broadcast-scoped message after position i, 0 if none
NextStatus(msgs, i) ==
    IF \E j \in (i + 1)..Len(msgs) : IsStatus(msgs[j])
    THEN CHOOSE j \in (i + 1)..Len(msgs) :
            IsStatus(msgs[j]) /\ \A k \in (i + 1)..(j - 1) : ~IsStatus(msgs[k])
    ELSE 0

\* LiveAdvance of a handler that works only on a socket that was given a config
LiveAdvanceNeedsConfig(t, fs, nm, ok) ==
    LET j == NextStatus(t.msgs, t.i)
    IN  IF j = 0 \/ socks[t.sock].config = <<>>
        THEN [t |-> [t EXCEPT !.pc = "finished", !.i = Len(t.msgs)],
              files |-> fs, names |-> nm]
        ELSE StartItem([t EXCEPT !.i = j], fs, nm, ok)

\* LiveAdvance of a handler that waits while a history drain is at work
LiveAdvanceAfterDrain(t, fs, nm, ok) ==
    LET j == NextStatus(t.msgs, t.i)
    IN  IF \E n \in DOMAIN tasks :
              tasks[n].kind = "hist" /\ tasks[n].pc \notin {"finished", "aborted"}
        THEN [t |-> t, files |-> fs, names |-> nm]
        ELSE IF j = 0
        THEN [t |-> [t EXCEPT !.pc = "finished", !.i = Len(t.msgs)],
              files |-> fs, names |-> nm]
        ELSE StartItem([t EXCEPT !.i = j], fs, nm, ok)

\* the for loop of the messages.upsert handler from position t.i on, up to the
\* first await of the next processStatusMessage call or the end of the array
LiveAdvance(t, fs, nm, ok) ==
    LET j == NextStatus(t.msgs, t.i)
    IN  IF j = 0
        THEN [t |-> [t EXCEPT !.pc = "finished", !.i = Len(t.msgs)],
              files |-> fs, names |-> nm]
        ELSE StartItem([t EXCEPT !.i = j], fs, nm, ok)

\* the for loop of the messaging-history.set handler entering iteration t.i + 1
HistAdvance(t, fs, nm, ok) ==
    IF t.i + 1 > Len(t.msgs)
    THEN [t |-> [t EXCEPT !.pc = "finished"], files |-> fs, names |-> nm]
    ELSE StartItem([t EXCEPT !.i = @ + 1], fs, nm, ok)

\* ------------------------------------------------------------ the actions
\* start(): the settings were read and connectToWhatsApp(config) was called
Init ==
    /\ \E a \in Answers : pending = << <<getInteractiveSettings(a)>> >>
    /\ connectCalls = 1
    /\ socks = <<>>
    /\ loggedOut = FALSE
    /\ lastDisconnect = <<>>
    /\ tasks = <<>>
    /\ files = <<>>
    /\ names = [m \in Msgs |-> {}]
    /\ alive = TRUE

\* the socket that can still emit events, 0 if none
Current == IF socks # <<>> /\ socks[Len(socks)].state # "closed" THEN Len(socks) ELSE 0

\* connectToWhatsApp after its await of useMultiFileAuthState: makeWASocket and
\* the registration of the five handlers
MakeSocket ==
    /\ alive
    /\ pending # <<>>
    /\ socks' = Append(socks, [state |-> "connecting", config |-> Head(pending),
                               contacts |-> NoContacts])
    /\ lastDisconnect' = <<>>
    /\ pending' = Tail(pending)
    /\ UNCHANGED <<connectCalls, loggedOut, tasks, files, names, alive>>

\* the connection.update handler for an update with connection 'open'
ConnectionOpen ==
    /\ alive
    /\ Current # 0
    /\ socks[Current].state = "connecting"
    /\ socks' = [socks EXCEPT ![Current].state = "open"]
    /\ UNCHANGED <<pending, connectCalls, loggedOut, lastDisconnect, tasks, files, names, alive>>

\* ConnectionClose of a handler that calls connectToWhatsApp twice
ConnectionCloseTwice(code) ==
    /\ alive
    /\ Current # 0
    /\ code # <<LoggedOut>> => connectCalls < MaxConnects
    /\ socks' = [socks EXCEPT ![Current].state = "closed"]
    /\ lastDisconnect' = <<code>>
    /\ loggedOut' = (loggedOut \/ code = <<LoggedOut>>)
    /\ IF ShouldReconnect(code)
       THEN /\ connectCalls' = connectCalls + 2
            /\ pending' = pending \o << <<>>, <<>> >>
       ELSE UNCHANGED <<connectCalls, pending>>
    /\ UNCHANGED <<tasks, files, names, alive>>

\* ConnectionClose of a handler that is not run while a history drain is at work
ConnectionCloseAfterDrain(code) ==
    /\ alive
    /\ Current # 0
    /\ \A n \in DOMAIN tasks :
          tasks[n].kind = "hist" => tasks[n].pc \in {"finished", "aborted"}
    /\ code # <<LoggedOut>> => connectCalls < MaxConnects
    /\ socks' = [socks EXCEPT ![Current].state = "closed"]
    /\ lastDisconnect' = <<code>>
    /\ loggedOut' = (loggedOut \/ code = <<LoggedOut>>)
    /\ IF ShouldReconnect(code)
       THEN /\ connectCalls' = connectCalls + 1
            /\ pending' = Append(pending, <<>>)
       ELSE UNCHANGED <<connectCalls, pending>>
    /\ UNCHANGED <<tasks, files, names, alive>>

\* the connection.update handler for an update with connection 'close' whose
\* lastDisconnect.error carries status code `code` (<<>>: no error or no code);
\* the call connectToWhatsApp() passes no config.  The model stops closing
\* transiently once MaxConnects calls were made.
ConnectionClose(code) ==
    /\ alive
    /\ Current # 0
    /\ code # <<LoggedOut>> => connectCalls < MaxConnects
    /\ socks' = [socks EXCEPT ![Current].state = "closed"]
    /\ lastDisconnect' = <<code>>
    /\ loggedOut' = (loggedOut \/ code = <<LoggedOut>>)
    /\ IF ShouldReconnect(code)
       THEN /\ connectCalls' = connectCalls + 1
            /\ pending' = Append(pending, <<>>)
       ELSE UNCHANGED <<connectCalls, pending>>
    /\ UNCHANGED <<tasks, files, names, alive>>

\* Upsert in which the first contact of a batch with a given id wins
RECURSIVE UpsertFirstWins(_, _)
UpsertFirstWins(contacts, batch) ==
    IF batch = <<>> THEN contacts
    ELSE [UpsertFirstWins(contacts, Tail(batch)) EXCEPT ![Head(batch).id] = <<Head(batch)>>]

\* the contacts.upsert handler
RECURSIVE Upsert(_, _)
Upsert(contacts, batch) ==
    IF batch = <<>> THEN contacts
    ELSE Upsert([contacts EXCEPT ![Head(batch).id] = <<Head(batch)>>], Tail(batch))

ContactsUpsert(batch) ==
    /\ alive
    /\ Current # 0
    /\ socks[Current].state = "open"
    /\ socks' = [socks EXCEPT ![Current].contacts = Upsert(@, batch)]
    /\ UNCHANGED <<pending, connectCalls, loggedOut, lastDisconnect, tasks, files, names, alive>>

\* the messages.upsert handler up to its first await; the model delivers no
\* notification once `limit` handlers were invoked
LiveUpsert(limit, messages, ok) ==
    /\ alive
    /\ Current # 0
    /\ socks[Current].state = "open"
    /\ Len(tasks) < limit
    /\ LET r == LiveAdvance(NewTask("live", Current, messages), files, names, ok)
       IN  /\ ok \/ r.t.last = "failed"
           /\ tasks' = Append(tasks, r.t)
           /\ files' = r.files
           /\ names' = r.names
    /\ UNCHANGED <<socks, pending, connectCalls, loggedOut, lastDisconnect, alive>>

\* the messaging-history.set handler up to its first await
HistorySet(limit, messages, ok) ==
    /\ alive
    /\ Current # 0
    /\ socks[Current].state = "open"
    /\ Len(tasks) < limit
    /\ LET r == HistAdvance(NewTask("hist", Current, Statuses(messages)), files, names, ok)
       IN  /\ ok \/ r.t.last = "failed"
           /\ tasks' = Append(tasks, r.t)
           /\ files' = r.files
           /\ names' = r.names
    /\ UNCHANGED <<socks, pending, connectCalls, loggedOut, lastDisconnect, alive>>

\* the pacing code after `await processStatusMessage` in the history loop;
\* config absent: reading config.batchSize throws out of the handler
Pace(t, k) ==
    LET config == socks[t.sock].config
    IN  IF config = <<>> THEN [t EXCEPT !.pc = "aborted"]
        ELSE IF IsBatchPause(t.i, Len(t.msgs), config[1])
        THEN [t EXCEPT !.pc = "pause", !.nBatch = @ + 1,
                       !.pause = <<[kind |-> "batch", ms |-> config[1].batchDelay]>>]
        ELSE [t EXCEPT !.pc = "pause", !.nJitter = @ + 1,
                       !.pause = <<[kind |-> "jitter", ms |-> JitterDelay(k, config[1])]>>]

\* the messages.upsert handler resumes after `await processStatusMessage(m, sock)`
ResumeLive(n, ok) ==
    /\ alive
    /\ n \in DOMAIN tasks
    /\ tasks[n].pc = "resolved"
    /\ tasks[n].kind = "live"
    /\ LET r == LiveAdvance(tasks[n], files, names, ok)
       IN  /\ ok \/ r.t.last = "failed"
           /\ tasks' = [tasks EXCEPT ![n] = r.t]
           /\ files' = r.files
           /\ names' = r.names
    /\ UNCHANGED <<socks, pending, connectCalls, loggedOut, lastDisconnect, alive>>

\* ResumeHist of a loop that does not pause: the next item starts at once
ResumeHistNoPause(n, k, crash) ==
    /\ alive
    /\ n \in DOMAIN tasks
    /\ tasks[n].pc = "resolved"
    /\ tasks[n].kind = "hist"
    /\ k = 0
    /\ ~crash
    /\ LET r == HistAdvance(tasks[n], files, names, TRUE)
       IN  /\ tasks' = [tasks EXCEPT ![n] = r.t]
           /\ files' = r.files
           /\ names' = r.names
    /\ UNCHANGED <<socks, pending, connectCalls, loggedOut, lastDisconnect, alive>>

\* the messaging-history.set handler resumes after `await processStatusMessage(m,
\* sock)`; k: the value of Math.random; crash: the runtime ends the process on
\* the unhandled rejection of an aborted handler
ResumeHist(n, k, crash) ==
    /\ alive
    /\ n \in DOMAIN tasks
    /\ tasks[n].pc = "resolved"
    /\ tasks[n].kind = "hist"
    /\ LET t == Pace(tasks[n], k)
       IN  /\ (k # 0) => (t.pause # <<>> /\ t.pause[1].kind = "jitter")
           /\ crash => (t.pc = "aborted")
           /\ tasks' = [tasks EXCEPT ![n] = t]
           /\ alive' = ~crash
    /\ UNCHANGED <<socks, pending, connectCalls, loggedOut, lastDisconnect, files, names>>

\* the timer of a pacing pause fires and the history loop goes on
TimerFire(n, ok) ==
    /\ alive
    /\ n \in DOMAIN tasks
    /\ tasks[n].pc = "pause"
    /\ LET r == HistAdvance([tasks[n] EXCEPT !.pause = <<>>], files, names, ok)
       IN  /\ ok \/ r.t.last = "failed"
           /\ tasks' = [tasks EXCEPT ![n] = r.t]
           /\ files' = r.files
           /\ names' = r.names
    /\ UNCHANGED <<socks, pending, connectCalls, loggedOut, lastDisconnect, alive>>

\* `await downloadContentFromMessage(...)` settles: it returns the stream or throws
DownloadSettle(n, throws) ==
    /\ alive
    /\ n \in DOMAIN tasks
    /\ tasks[n].pc = "download"
    /\ IF throws
       THEN tasks' = [tasks EXCEPT ![n] = Settled(@, "failed")]
       ELSE tasks' = [tasks EXCEPT ![n].pc = "stream"]
    /\ UNCHANGED <<socks, pending, connectCalls, loggedOut, lastDisconnect, files, names, alive>>

\* the first step of `for await (const chunk of stream)`: the stream yields a
\* chunk ("chunk": the assignment to the const `buffer` throws a TypeError,
\* which the catch block takes), ends ("end": the empty buffer is written) or
\* fails ("error")
StreamSettle(n, outcome, ok) ==
    /\ alive
    /\ n \in DOMAIN tasks
    /\ tasks[n].pc = "stream"
    /\ ok \/ outcome = "end"
    /\ LET t == tasks[n]
           key == t.msgs[t.i]
       IN  IF outcome = "end" /\ ok
           THEN /\ tasks' = [tasks EXCEPT ![n] = Settled(t, "wrote")]
                /\ files' = WriteFile(files, t.filename, <<>>, key)
           ELSE /\ tasks' = [tasks EXCEPT ![n] =
                                Settled(t, IF outcome = "chunk" THEN "typeerror" ELSE "failed")]
                /\ files' = files
    /\ UNCHANGED <<socks, pending, connectCalls, loggedOut, lastDisconnect, names, alive>>

\* the creds.update handler: saveCreds is called; it is the library's async
\* function, which writes the credentials to disk and settles later
CredsUpdate(limit) ==
    /\ alive
    /\ Current # 0
    /\ Len(tasks) < limit
    /\ tasks' = Append(tasks, [NewTask("creds", Current, <<>>) EXCEPT !.pc = "saving"])
    /\ UNCHANGED <<socks, pending, connectCalls, loggedOut, lastDisconnect, files, names, alive>>

\* the promise of a saveCreds call settles: the credentials are on disk
SaveCredsSettle(n) ==
    /\ alive
    /\ n \in DOMAIN tasks
    /\ tasks[n].pc = "saving"
    /\ tasks' = [tasks EXCEPT ![n].pc = "finished"]
    /\ UNCHANGED <<socks, pending, connectCalls, loggedOut, lastDisconnect, files, names, alive>>

\* the lastDisconnect objects of 'close' updates: without an error, with an
\* error that has no output, with an output that has no statusCode, and with
\* the status codes loggedOut and connectionClosed
Disconnects ==
    {[error |-> <<>>],
     [error |-> <<[output |-> <<>>]>>],
     [error |-> <<[output |-> <<[statusCode |-> <<>>]>>]>>],
     [error |-> <<[output |-> <<[statusCode |-> <<LoggedOut>>]>>]>>],
     [error |-> <<[output |-> <<[statusCode |-> <<ConnectionClosed>>]>>]>>]}

\* (lastDisconnect.error)?.output?.statusCode, <<>> for undefined
StatusCodeOf(ld) ==
    IF ld.error = <<>> THEN <<>>
    ELSE IF ld.error[1].output = <<>> THEN <<>>
    ELSE ld.error[1].output[1].statusCode

StatusCodes == {StatusCodeOf(ld) : ld \in Disconnects}

\* the steps of the program when at most `limit` handlers are invoked and the
\* notifications carry the arrays of `contacts`, `live` and `history`
StepOn(limit, contacts, live, history) ==
    \/ MakeSocket
    \/ ConnectionOpen
    \/ \E code \in StatusCodes : ConnectionClose(code)
    \/ \E batch \in contacts : ContactsUpsert(batch)
    \/ \E messages \in live, ok \in BOOLEAN : LiveUpsert(limit, messages, ok)
    \/ \E messages \in history, ok \in BOOLEAN : HistorySet(limit, messages, ok)
    \/ \E n \in 1..limit, ok \in BOOLEAN : ResumeLive(n, ok)
    \/ \E n \in 1..limit, k \in 0..(RandRes - 1), crash \in BOOLEAN :
          ResumeHist(n, k, crash)
    \/ \E n \in 1..limit, ok \in BOOLEAN : TimerFire(n, ok)
    \/ \E n \in 1..limit, throws \in BOOLEAN : DownloadSettle(n, throws)
    \/ \E n \in 1..limit, outcome \in {"chunk", "end", "error"}, ok \in BOOLEAN :
          StreamSettle(n, outcome, ok)

Step(limit) == StepOn(limit, ContactBatches, LiveBatches, HistoryBatches)

Next == Step(MaxTasks)

Spec == Init /\ [][Next]_vars

\* the same program, two handler invocations: the interleavings of two tasks
NextRace == Step(MaxRaceTasks)

SpecRace == Init /\ [][NextRace]_vars

\* the steps of one handler invocation after its first await
Work(n) ==
    \/ \E ok \in BOOLEAN : ResumeLive(n, ok)
    \/ \E k \in 0..(RandRes - 1), crash \in BOOLEAN : ResumeHist(n, k, crash)
    \/ \E ok \in BOOLEAN : TimerFire(n, ok)
    \/ \E throws \in BOOLEAN : DownloadSettle(n, throws)
    \/ \E outcome \in {"chunk", "end", "error"}, ok \in BOOLEAN : StreamSettle(n, outcome, ok)

\* the same program when the transport delivers no contacts.upsert: every
\* sender is named by the user part of its jid
NextNoContacts ==
    \/ MakeSocket
    \/ ConnectionOpen
    \/ \E code \in StatusCodes : ConnectionClose(code)
    \/ \E messages \in LiveBatches, ok \in BOOLEAN : LiveUpsert(MaxTasks, messages, ok)
    \/ \E messages \in HistoryBatches, ok \in BOOLEAN : HistorySet(MaxTasks, messages, ok)
    \/ \E n \in 1..MaxTasks : Work(n)

SpecNoContacts == Init /\ [][NextNoContacts]_vars

\* the same program on a connection that stays up, when the transport
\* delivers one history replay and then, while and after it is drained, live
\* notifications
NextMix ==
    \/ MakeSocket
    \/ ConnectionOpen
    \/ \E batch \in ContactBatches : ContactsUpsert(batch)
    \/ /\ tasks = <<>>
       /\ \E messages \in HistoryBatches, ok \in BOOLEAN :
             HistorySet(MaxMixLive + 1, messages, ok)
    \/ /\ tasks # <<>>
       /\ \E messages \in LiveBatches, ok \in BOOLEAN :
             LiveUpsert(MaxMixLive + 1, messages, ok)
    \/ \E n \in 1..(MaxMixLive + 1) : Work(n)

SpecMix == Init /\ [][NextMix]_vars

\* the same program with the creds.update notifications of the transport
NextCreds ==
    \/ Step(MaxRaceTasks)
    \/ CredsUpdate(MaxRaceTasks)
    \/ \E n \in 1..MaxRaceTasks : SaveCredsSettle(n)

SpecCreds == Init /\ [][NextCreds]_vars

\* the same program, fed with statuses of every kind
NextKinds == StepOn(MaxTasks, ContactBatches, KindLiveBatches, KindHistoryBatches)

SpecKinds == Init /\ [][NextKinds]_vars

\* the same program, fed with statuses whose file names are long or unusual
NextNaming ==
    StepOn(MaxTasks, NamingContactBatches, NamingLiveBatches, NamingHistoryBatches)

SpecNaming == Init /\ [][NextNaming]_vars

\* the same program on one connection, fed with contacts of every shape and
\* with live text statuses
NextDirectory ==
    \/ MakeSocket
    \/ ConnectionOpen
    \/ \E batch \in DirContactBatches : ContactsUpsert(batch)
    \/ \E messages \in DirLiveBatches, ok \in BOOLEAN : LiveUpsert(MaxTasks, messages, ok)
    \/ \E n \in 1..MaxTasks, ok \in BOOLEAN : ResumeLive(n, ok)

SpecDirectory == Init /\ [][NextDirectory]_vars

\* the steps of one history drain after its first await
DrainWork(n) ==
    \/ \E k \in 0..(RandRes - 1), crash \in BOOLEAN : ResumeHist(n, k, crash)
    \/ \E ok \in BOOLEAN : TimerFire(n, ok)
    \/ \E throws \in BOOLEAN : DownloadSettle(n, throws)
    \/ \E outcome \in {"chunk", "end", "error"}, ok \in BOOLEAN : StreamSettle(n, outcome, ok)

\* the replay array of a run that follows history drains to their end
DrainBatches == {<<"mChat", "mImage">>}

\* the program fed with history replays only, up to MaxRaceTasks of them, under
\* the scheduling of the event loop: a pending connect makes its socket, and a
\* drain that can take a step takes one (a resumed handler runs, a timer that
\* was set fires, a fetch that was issued returns or throws, its stream
\* yields, ends or fails)
NextDrain ==
    \/ MakeSocket
    \/ ConnectionOpen
    \/ \E code \in StatusCodes : ConnectionClose(code)
    \/ \E messages \in DrainBatches, ok \in BOOLEAN : HistorySet(MaxRaceTasks, messages, ok)
    \/ \E n \in 1..MaxRaceTasks : DrainWork(n)

FairDrain ==
    /\ WF_vars(MakeSocket)
    /\ \A n \in 1..MaxRaceTasks : WF_vars(DrainWork(n))

SpecDrain == Init /\ [][NextDrain]_vars /\ FairDrain

\* ------------------------------------------- the backend (startWhatsAppClient)
\* backend/index.js repeats getContactInfo, sanitizeFilename, the socket set-up
\* and the file names of the downloader; its processStatusMessage and its
\* history handler differ and are modelled here.  path.join(downloadDir,
\* filename) is the file name with the directory prefix.
BackendLiveBatches == {<<"mText">>, <<"mImage">>}
BackendHistoryBatches == {<<"mChat", "mText", "mImage">>}

\* startWhatsAppClient(config): connectToWhatsApp() was called, without arguments
InitBackend ==
    /\ pending = << <<>> >>
    /\ connectCalls = 1
    /\ socks = <<>>
    /\ loggedOut = FALSE
    /\ lastDisconnect = <<>>
    /\ tasks = <<>>
    /\ files = <<>>
    /\ names = [m \in Msgs |-> {}]
    /\ alive = TRUE

\* the backend's processStatusMessage(t.msgs[t.i]) up to its first await or its
\* return: no sender and any payload other than image or text return; an image
\* is fetched; a text is written at once.  The file is not looked for.
BackendStartItem(t, fs, nm, ok) ==
    LET key == t.msgs[t.i]
        m == Msg(key)
        c == Classify(m, socks[t.sock].contacts)
        named == [nm EXCEPT ![key] = @ \cup {c.filename}]
    IN  IF c.kind \notin {"image", "text"}
        THEN [t |-> Settled(t, "skipped"), files |-> fs, names |-> nm]
        ELSE IF c.kind = "image"
        THEN [t |-> [t EXCEPT !.pc = "download", !.filename = c.filename],
              files |-> fs, names |-> named]
        ELSE IF ok
        THEN [t |-> Settled(t, "wrote"), files |-> WriteFile(fs, c.filename, m.text, key),
              names |-> named]
        ELSE [t |-> Settled(t, "failed"), files |-> fs, names |-> named]

\* the for loop of the backend's messages.upsert handler from position t.i on
BackendLiveAdvance(t, fs, nm, ok) ==
    LET j == NextStatus(t.msgs, t.i)
    IN  IF j = 0
        THEN [t |-> [t EXCEPT !.pc = "finished", !.i = Len(t.msgs)],
              files |-> fs, names |-> nm]
        ELSE BackendStartItem([t EXCEPT !.i = j], fs, nm, ok)

\* the for loop of the backend's messaging-history.set handler from position
\* t.i on: it awaits the 200 ms timer before the next broadcast-scoped message
BackendHistAdvance(t) ==
    IF NextStatus(t.msgs, t.i) = 0
    THEN [t EXCEPT !.pc = "finished", !.i = Len(t.msgs)]
    ELSE [t EXCEPT !.pc = "pause"]

\* the backend's messages.upsert handler up to its first await
BackendLiveUpsert(limit, messages, ok) ==
    /\ alive
    /\ Current # 0
    /\ socks[Current].state = "open"
    /\ Len(tasks) < limit
    /\ LET r == BackendLiveAdvance(NewTask("live", Current, messages), files, names, ok)
       IN  /\ ok \/ r.t.last = "failed"
           /\ tasks' = Append(tasks, r.t)
           /\ files' = r.files
           /\ names' = r.names
    /\ UNCHANGED <<socks, pending, connectCalls, loggedOut, lastDisconnect, alive>>

\* the backend's messaging-history.set handler up to its first await
BackendHistorySet(limit, messages) ==
    /\ alive
    /\ Current # 0
    /\ socks[Current].state = "open"
    /\ Len(tasks) < limit
    /\ tasks' = Append(tasks, BackendHistAdvance(NewTask("hist", Current, messages)))
    /\ UNCHANGED <<socks, pending, connectCalls, loggedOut, lastDisconnect, files, names, alive>>

\* the 200 ms timer fires and processStatusMessage is called
BackendTimerFire(n, ok) ==
    /\ alive
    /\ n \in DOMAIN tasks
    /\ tasks[n].pc = "pause"
    /\ LET t == tasks[n]
           r == BackendStartItem([t EXCEPT !.i = NextStatus(t.msgs, t.i)], files, names, ok)
       IN  /\ ok \/ r.t.last = "failed"
           /\ tasks' = [tasks EXCEPT ![n] = r.t]
           /\ files' = r.files
           /\ names' = r.names
    /\ UNCHANGED <<socks, pending, connectCalls, loggedOut, lastDisconnect, alive>>

\* a backend handler resumes after `await processStatusMessage(m)`
BackendResume(n, ok) ==
    /\ alive
    /\ n \in DOMAIN tasks
    /\ tasks[n].pc = "resolved"
    /\ IF tasks[n].kind = "live"
       THEN LET r == BackendLiveAdvance(tasks[n], files, names, ok)
            IN  /\ ok \/ r.t.last = "failed"
                /\ tasks' = [tasks EXCEPT ![n] = r.t]
                /\ files' = r.files
                /\ names' = r.names
       ELSE /\ ok
            /\ tasks' = [tasks EXCEPT ![n] = BackendHistAdvance(@)]
            /\ UNCHANGED <<files, names>>
    /\ UNCHANGED <<socks, pending, connectCalls, loggedOut, lastDisconnect, alive>>

\* the backend's `await downloadContentFromMessage(...)` settles
BackendDownloadSettle(n, throws) ==
    /\ alive
    /\ n \in DOMAIN tasks
    /\ tasks[n].pc = "download"
    /\ IF throws
       THEN tasks' = [tasks EXCEPT ![n] = Settled(@, "failed")]
       ELSE tasks' = [tasks EXCEPT ![n].pc = "stream"]
    /\ UNCHANGED <<socks, pending, connectCalls, loggedOut, lastDisconnect, files, names, alive>>

\* the backend's for-await loop and the write after it: the stream yields
\* `chunks` chunks and ends ("end": the concatenation is written, ok: the write
\* does not throw) or fails ("error")
BackendStreamSettle(n, chunks, outcome, ok) ==
    /\ alive
    /\ n \in DOMAIN tasks
    /\ tasks[n].pc = "stream"
    /\ outcome = "error" => (ok /\ chunks = 0)
    /\ LET t == tasks[n]
           key == t.msgs[t.i]
           buffer == [i \in 1..chunks |-> "chunk"]
       IN  IF outcome = "end" /\ ok
           THEN /\ tasks' = [tasks EXCEPT ![n] = Settled(t, "wrote")]
                /\ files' = WriteFile(files, t.filename, buffer, key)
           ELSE /\ tasks' = [tasks EXCEPT ![n] = Settled(t, "failed")]
                /\ files' = files
    /\ UNCHANGED <<socks, pending, connectCalls, loggedOut, lastDisconnect, names, alive>>

NextBackend ==
    \/ MakeSocket
    \/ ConnectionOpen
    \/ \E messages \in BackendLiveBatches, ok \in BOOLEAN :
          BackendLiveUpsert(MaxRaceTasks, messages, ok)
    \/ \E messages \in BackendHistoryBatches : BackendHistorySet(MaxRaceTasks, messages)
    \/ \E n \in 1..MaxRaceTasks, ok \in BOOLEAN : BackendTimerFire(n, ok)
    \/ \E n \in 1..MaxRaceTasks, ok \in BOOLEAN : BackendResume(n, ok)
    \/ \E n \in 1..MaxRaceTasks, throws \in BOOLEAN : BackendDownloadSettle(n, throws)
    \/ \E n \in 1..MaxRaceTasks, chunks \in 0..MaxChunks, outcome \in {"end", "error"},
          ok \in BOOLEAN : BackendStreamSettle(n, chunks, outcome, ok)

SpecBackend == InitBackend /\ [][NextBackend]_vars

\* ------------------------------------------------- names, on their own
\* the strings given to sanitizeFilename and used as contact names
StrChars == {"a", " ", "\t", "/", "_"}
Strings == UNION {[1..k -> StrChars] : k \in 0..MaxStrLen}

\* filename.lastIndexOf(ch), 0 for -1
LastIndexOf(str, ch) ==
    LET idx == {i \in 1..Len(str) : str[i] = ch}
    IN  IF idx = {} THEN 0 ELSE CHOOSE i \in idx : \A j \in idx : j <= i

\* str.split('_')
RECURSIVE SplitUnderscore(_)
SplitUnderscore(str) ==
    LET idx == {i \in 1..Len(str) : str[i] = "_"}
        first == CHOOSE i \in idx : \A j \in idx : i <= j
    IN  IF idx = {} THEN <<str>>
        ELSE <<SubSeq(str, 1, first - 1)>>
                 \o SplitUnderscore(SubSeq(str, first + 1, Len(str)))

\* parts.join(' ')
RECURSIVE JoinSpace(_)
JoinSpace(parts) ==
    IF parts = <<>> THEN <<>>
    ELSE IF Len(parts) = 1 THEN parts[1]
    ELSE parts[1] \o <<" ">> \o JoinSpace(Tail(parts))

\* str.trim()
RECURSIVE Trim(_)
Trim(str) ==
    IF str # <<>> /\ Head(str) \in Whitespace THEN Trim(Tail(str))
    ELSE IF str # <<>> /\ str[Len(str)] \in Whitespace THEN Trim(SubSeq(str, 1, Len(str) - 1))
    ELSE str

\* str.replace(/\s+/g, ' ')
RECURSIVE CollapseToSpace(_)
CollapseToSpace(str) ==
    IF str = <<>> THEN <<>>
    ELSE IF Head(str) \in Whitespace
         THEN IF Len(str) > 1 /\ str[2] \in Whitespace
              THEN CollapseToSpace(Tail(str))
              ELSE <<" ">> \o CollapseToSpace(Tail(str))
         ELSE <<Head(str)>> \o CollapseToSpace(Tail(str))

\* the viewer's parseFilename(filename); "unknown" stands for its fixed sender
\* of an unparsable name and "uuid" for a generated id
parseFilename(filename) ==
    LET dot == LastIndexOf(filename, ".")
        nameWithoutExt == IF dot = 0 THEN <<>> ELSE SubSeq(filename, 1, dot - 1)
        parts == SplitUnderscore(nameWithoutExt)
    IN  IF Len(parts) < 2
        THEN [senderId |-> <<"unknown">>,
              uniqueId |-> IF nameWithoutExt # <<>> THEN nameWithoutExt ELSE <<"uuid">>,
              caption |-> <<>>]
        ELSE [senderId |-> parts[1],
              uniqueId |-> parts[2],
              caption |-> CollapseToSpace(Trim(JoinSpace(SubSeq(parts, 3, Len(parts)))))]

\* one call sanitizeFilename(str, maxLength), and a second call on its result
Sanitize(str, maxLength) ==
    /\ tasks = <<>>
    /\ LET result == sanitizeFilename(str, maxLength)
       IN  tasks' = <<[kind |-> "sanitize", str |-> str, maxLength |-> maxLength,
                       result |-> result, again |-> sanitizeFilename(result, maxLength)]>>
    /\ UNCHANGED <<socks, pending, connectCalls, loggedOut, lastDisconnect, files, names, alive>>

\* the file name processStatusMessage derives for the status `key` of a sender
\* whose contact name is S, as the server lists it (without the directory), and
\* what the viewer's parseFilename makes of it
ParseStored(S, key) ==
    /\ tasks = <<>>
    /\ LET contacts == [NoContacts EXCEPT
                           ![J1] = <<[id |-> J1, name |-> S, notify |-> Undefined]>>]
           stored == Tail(Classify(Msg(key), contacts).filename)
       IN  tasks' = <<[kind |-> "parse", name |-> getContactInfo(J1, contacts), key |-> key,
                       filename |-> stored, parsed |-> parseFilename(stored)]>>
    /\ UNCHANGED <<socks, pending, connectCalls, loggedOut, lastDisconnect, files, names, alive>>

NextNames ==
    \/ \E str \in Strings \cup {Undefined}, maxLength \in 0..(MaxStrLen + 1) :
          Sanitize(str, maxLength)
    \/ \E S \in Strings, key \in {"mText", "mImage"} : ParseStored(S, key)

SpecNames == Init /\ [][NextNames]_vars

\* ------------------------------------------------------ the file server
\* A path is a sequence of segments, read from ROOT_DIR (__dirname); a leading
\* ".." segment leaves ROOT_DIR.  A segment and a :filename parameter are
\* sequences of characters.
PathChars == {"a", ".", "/"}
Filenames == UNION {[1..k -> PathChars] : k \in 1..MaxReqLen}

\* path.join(ROOT_DIR, 'downloads')
DOWNLOAD_DIR == << <<"downloads">> >>

\* the regular files on disk when the server starts: a file of the application
\* in ROOT_DIR, one outside it, a hidden file and a file of a subdirectory of
\* the download directory, and (in the first listing) a downloaded status
FileOf(text) == [content |-> <<text>>, writes |-> 1, of |-> {}]
OtherFiles ==
    (<< <<"a">> >> :> FileOf("application file"))
    @@ (<< <<".", ".">>, <<"a">> >> :> FileOf("file outside"))
    @@ (<< <<"downloads">>, <<".", "a">> >> :> FileOf("hidden file"))
    @@ (<< <<"downloads">>, <<"a", "a">>, <<"a">> >> :> FileOf("nested file"))
Listings ==
    {OtherFiles @@ (<< <<"downloads">>, <<"a">> >> :> FileOf("status")),
     OtherFiles}

\* path.basename(p) that returns p as it is
basenameIdentity(p) == p

\* path.basename(p) of POSIX: trailing separators are dropped, then the
\* characters after the last separator are returned
RECURSIVE StripTrailingSep(_)
StripTrailingSep(p) ==
    IF p # <<>> /\ p[Len(p)] = "/" THEN StripTrailingSep(SubSeq(p, 1, Len(p) - 1)) ELSE p
basename(p) ==
    LET q == StripTrailingSep(p)
        seps == {i \in 1..Len(q) : q[i] = "/"}
        last == IF seps = {} THEN 0 ELSE CHOOSE i \in seps : \A j \in seps : j <= i
    IN  SubSeq(q, last + 1, Len(q))

\* str.split('/')
RECURSIVE SplitSep(_)
SplitSep(str) ==
    LET seps == {i \in 1..Len(str) : str[i] = "/"}
        first == CHOOSE i \in seps : \A j \in seps : i <= j
    IN  IF seps = {} THEN <<str>>
        ELSE <<SubSeq(str, 1, first - 1)>> \o SplitSep(SubSeq(str, first + 1, Len(str)))

\* the normalisation of path.join: empty and "." segments are dropped, a ".."
\* segment removes the segment before it
RECURSIVE Normalize(_, _)
Normalize(segs, acc) ==
    IF segs = <<>> THEN acc
    ELSE LET seg == Head(segs)
         IN  IF seg = <<>> \/ seg = <<".">> THEN Normalize(Tail(segs), acc)
             ELSE IF seg = <<".", ".">> /\ acc # <<>> /\ acc[Len(acc)] # <<".", ".">>
             THEN Normalize(Tail(segs), SubSeq(acc, 1, Len(acc) - 1))
             ELSE Normalize(Tail(segs), Append(acc, seg))

\* path.join(dir, str) for a normalised dir
pathJoin(dir, str) == Normalize(SplitSep(str), dir)

\* res.sendFile(filePath, callback) with its default options: a path with a
\* hidden segment is ignored, a directory or a missing file is an error, a
\* regular file is sent
IsDotFile(seg) == Len(seg) > 1 /\ seg[1] = "." /\ seg # <<".", ".">>
sendFile(filePath, fs) ==
    IF \E i \in DOMAIN filePath : IsDotFile(filePath[i]) THEN [err |-> TRUE, content |-> <<>>]
    ELSE IF filePath \in DOMAIN fs THEN [err |-> FALSE, content |-> fs[filePath].content]
    ELSE [err |-> TRUE, content |-> <<>>]

\* the server after app.listen, with the files of one listing on disk
InitServe ==
    /\ files \in Listings
    /\ tasks = <<>>
    /\ pending = <<>>
    /\ connectCalls = 0
    /\ socks = <<>>
    /\ loggedOut = FALSE
    /\ lastDisconnect = <<>>
    /\ names = [m \in Msgs |-> {}]
    /\ alive = TRUE

\* app.get('/files/:filename'): the handler and the response it ends in
GetFile(filename) ==
    /\ Len(tasks) < MaxRequests
    /\ LET sanitizedFilename == basename(filename)
           filePath == pathJoin(DOWNLOAD_DIR, sanitizedFilename)
           r == sendFile(filePath, files)
       IN  tasks' = Append(tasks,
                       [kind |-> "get", filename |-> filename, filePath |-> filePath,
                        status |-> IF r.err THEN StatusNotFound ELSE StatusOk,
                        body |-> IF r.err THEN <<"File not found">> ELSE r.content])
    /\ UNCHANGED <<socks, pending, connectCalls, loggedOut, lastDisconnect, files, names, alive>>

NextServe == \E filename \in Filenames : GetFile(filename)

SpecServe == InitServe /\ [][NextServe]_vars

\* ----------------------------------------------------------- the viewer
\* the file names the server's listing can hold
ServerFiles == {"s1.txt", "s2.jpg"}

\* the files the user can select
LocalFiles == {"u.jpg"}

\* the component's state (useState) and its ref
sellerEntries == names.sellerEntries
fileQueue == names.fileQueue
processedFileNames == names.processedFileNames

\* what a render's closures see of the state
Closure == [sellerEntries |-> sellerEntries, fileQueue |-> fileQueue]

\* the elements of a set in a fixed order
RECURSIVE SeqOf(_)
SeqOf(S) ==
    IF S = {} THEN <<>>
    ELSE LET x == CHOOSE y \in S : TRUE IN <<x>> \o SeqOf(S \ {x})

\* the state before the component's first effect: nothing stored, a listing
InitViewer ==
    /\ files \in SUBSET ServerFiles
    /\ names = [sellerEntries |-> <<>>, fileQueue |-> <<>>, processedFileNames |-> {}]
    /\ tasks = <<>>
    /\ pending = <<>>
    /\ connectCalls = 0
    /\ socks = <<>>
    /\ loggedOut = FALSE
    /\ lastDisconnect = <<>>
    /\ alive = TRUE

\* the server stores one more artifact
ServerStores(f) ==
    /\ f \notin files
    /\ files' = files \cup {f}
    /\ UNCHANGED <<socks, pending, connectCalls, loggedOut, lastDisconnect, tasks, names, alive>>

\* fetchAndProcessNewStatuses up to its first await, with the closure c
NewPoll(c) ==
    [kind |-> "poll", pc |-> "listing", closure |-> c, newFilesToFetch |-> {}]

\* the runs once run n has returned: what it held is garbage
Returned(n) == [tasks EXCEPT ![n] = [kind |-> @.kind, pc |-> "done"]]

Polls == {n \in DOMAIN tasks : tasks[n].kind = "poll"}

\* the polling effect runs: after the first render and after each render in
\* which sellerEntries or fileQueue changed; it replaces the interval and
\* calls fetchAndProcessNewStatuses at once
EffectRun ==
    /\ IF pending = <<>> THEN TRUE ELSE pending[1] # Closure
    /\ Cardinality(Polls) < MaxPolls
    /\ pending' = <<Closure>>
    /\ tasks' = Append(tasks, NewPoll(Closure))
    /\ UNCHANGED <<socks, connectCalls, loggedOut, lastDisconnect, files, names, alive>>

\* the interval of the current effect fires
IntervalTick ==
    /\ pending # <<>>
    /\ Cardinality(Polls) < MaxPolls
    /\ tasks' = Append(tasks, NewPoll(pending[1]))
    /\ UNCHANGED <<socks, pending, connectCalls, loggedOut, lastDisconnect, files, names, alive>>

\* a poll resumes with the listing: the names it does not know are fetched
ListingSettle(n, ok) ==
    /\ n \in Polls
    /\ tasks[n].pc = "listing"
    /\ LET c == tasks[n].closure
           allKnownFiles == processedFileNames
                               \cup {c.sellerEntries[i].imageFileName : i \in DOMAIN c.sellerEntries}
                               \cup {c.fileQueue[i].name : i \in DOMAIN c.fileQueue}
           newFilesToFetch == files \ allKnownFiles
       IN  tasks' = IF ok /\ newFilesToFetch # {}
                    THEN [tasks EXCEPT ![n] =
                             [@ EXCEPT !.pc = "files", !.newFilesToFetch = newFilesToFetch]]
                    ELSE Returned(n)
    /\ UNCHANGED <<socks, pending, connectCalls, loggedOut, lastDisconnect, files, names, alive>>

\* handleFilesSelected of the closure c for the fetched files, applied to the
\* state st with ids from `id` on: a file the closure has no entry for (or
\* only an entry in error) gets a placeholder entry and a queue item
RECURSIVE handleFilesSelected(_, _, _, _)
handleFilesSelected(fetched, c, st, id) ==
    IF fetched = <<>> THEN [st |-> st, id |-> id]
    ELSE LET name == Head(fetched)
             skip == \/ \E i \in DOMAIN c.sellerEntries :
                           /\ c.sellerEntries[i].imageFileName = name
                           /\ c.sellerEntries[i].status # "error"
                     \/ \E i \in DOMAIN c.fileQueue : c.fileQueue[i].name = name
         IN  IF skip THEN handleFilesSelected(Tail(fetched), c, st, id)
             ELSE handleFilesSelected(Tail(fetched), c,
                      [st EXCEPT
                          !.sellerEntries = Append(@, [id |-> id + 1, imageFileName |-> name,
                                                       status |-> "processing"]),
                          !.fileQueue = Append(@, [uniqueId |-> id + 1, name |-> name])],
                      id + 1)

\* a poll resumes with the files it fetched (those whose response was ok),
\* hands them to handleFilesSelected and adds them to processedFileNames
FilesSettle(n, fetchedFiles) ==
    /\ n \in Polls
    /\ tasks[n].pc = "files"
    /\ fetchedFiles \subseteq tasks[n].newFilesToFetch
    /\ LET r == handleFilesSelected(SeqOf(fetchedFiles), tasks[n].closure, names, connectCalls)
       IN  /\ names' = [r.st EXCEPT !.processedFileNames = @ \cup fetchedFiles]
           /\ connectCalls' = r.id
    /\ tasks' = Returned(n)
    /\ UNCHANGED <<socks, pending, loggedOut, lastDisconnect, files, alive>>

\* the user selects a local file: handleFilesSelected of the current render
Upload(f) ==
    /\ \A i \in DOMAIN sellerEntries : sellerEntries[i].imageFileName # f
    /\ LET r == handleFilesSelected(<<f>>, Closure, names, connectCalls)
       IN  /\ names' = r.st
           /\ connectCalls' = r.id
    /\ UNCHANGED <<socks, pending, loggedOut, lastDisconnect, tasks, files, alive>>

\* the queue effect's dispatch, for a batch size k and one request at a time:
\* the first k queue items leave the queue and go to processFileBatch
Dispatch(k) ==
    /\ k \in 1..Len(fileQueue)
    /\ \A n \in DOMAIN tasks : tasks[n].kind = "batch" => tasks[n].pc = "done"
    /\ names' = [names EXCEPT !.fileQueue = SubSeq(@, k + 1, Len(@))]
    /\ tasks' = Append(tasks, [kind |-> "batch", pc |-> "request",
                               batch |-> SubSeq(fileQueue, 1, k)])
    /\ UNCHANGED <<socks, pending, connectCalls, loggedOut, lastDisconnect, files, alive>>

\* the entries without those of the ids
RECURSIVE WithoutIds(_, _)
WithoutIds(entries, ids) ==
    IF entries = <<>> THEN <<>>
    ELSE IF Head(entries).id \in ids THEN WithoutIds(Tail(entries), ids)
    ELSE <<Head(entries)>> \o WithoutIds(Tail(entries), ids)

\* the entries that replace a batch's placeholders, ids from `id` on
RECURSIVE BatchEntries(_, _, _)
BatchEntries(batch, failed, id) ==
    IF batch = <<>> THEN <<>>
    ELSE <<[id |-> id + 1, imageFileName |-> Head(batch).name,
            status |-> IF Head(batch).uniqueId \in failed THEN "error" ELSE "success"]>>
             \o BatchEntries(Tail(batch), failed, id + 1)

\* processFileBatch resumes with the answers: every placeholder of the batch
\* is replaced by an entry in success or in error
BatchSettle(n, failed) ==
    /\ n \in DOMAIN tasks
    /\ tasks[n].kind = "batch"
    /\ tasks[n].pc = "request"
    /\ LET batch == tasks[n].batch
           batchIds == {batch[i].uniqueId : i \in DOMAIN batch}
       IN  /\ failed \subseteq batchIds
           /\ names' = [names EXCEPT !.sellerEntries =
                            WithoutIds(@, batchIds) \o BatchEntries(batch, failed, connectCalls)]
           /\ connectCalls' = connectCalls + Len(batch)
    /\ tasks' = Returned(n)
    /\ UNCHANGED <<socks, pending, loggedOut, lastDisconnect, files, alive>>

NextViewer ==
    \/ \E f \in ServerFiles : ServerStores(f)
    \/ EffectRun
    \/ IntervalTick
    \/ \E n \in 1..Len(tasks), ok \in BOOLEAN : ListingSettle(n, ok)
    \/ \E n \in 1..Len(tasks), fetchedFiles \in SUBSET ServerFiles : FilesSettle(n, fetchedFiles)
    \/ \E f \in LocalFiles : Upload(f)
    \/ \E k \in {Len(names.fileQueue)} : Dispatch(k)
    \/ \E n \in 1..Len(tasks), failed \in SUBSET (1..connectCalls) : BatchSettle(n, failed)

SpecViewer == InitViewer /\ [][NextViewer]_vars

\* ------------------------------------------------------------ the claims
\* the positions of task t's array whose processStatusMessage call has ended
ProcessedIdx(t) ==
    {j \in 1..t.i : IsStatus(t.msgs[j]) /\ ~(j = t.i /\ t.pc \in {"download", "stream"})}

\* number of ended processStatusMessage calls for the message with this key
RECURSIVE RunsUpTo(_, _)
RunsUpTo(key, n) ==
    IF n = 0 THEN 0
    ELSE RunsUpTo(key, n - 1)
         + Cardinality({j \in ProcessedIdx(tasks[n]) : tasks[n].msgs[j] = key})
Runs(key) == RunsUpTo(key, Len(tasks))

\* the message is broadcast-scoped, has a sender and is an image or a text
IsArtifactEvent(key) ==
    /\ IsStatus(key)
    /\ Truthy(SenderJid(Msg(key)))
    /\ Msg(key).image # <<>> \/ Truthy(Msg(key).text)

\* the files written for the message with this key
Artifacts(key) == {f \in DOMAIN files : key \in files[f].of}

\* no download and no write was failed by the environment
NoEnvFailure == \A n \in DOMAIN tasks : ~tasks[n].failed

\* the config that start() passed to connectToWhatsApp
StartConfig == socks[1].config[1]

\* C1: an image or text status that was processed twice (and no download or
\* write failed) has exactly one artifact file, written exactly once.
IdempotentDelivery ==
    \A key \in Msgs :
        (IsArtifactEvent(key) /\ NoEnvFailure /\ Runs(key) >= 2)
            => /\ Cardinality(Artifacts(key)) = 1
               /\ \A f \in Artifacts(key) : files[f].writes = 1

\* C2: no file name is written more than once.
WrittenAtMostOnce == \A f \in DOMAIN files : files[f].writes <= 1

\* C3: all processings of one message derive the same file name.
StableDerivedName == \A key \in Msgs : Cardinality(names[key]) <= 1

\* C4: a drain of N >= 1 items that has ended made floor((N-1)/B) batch pauses,
\* B the batchSize given at start; a batch pause lasts batchDelay and every
\* other pause lasts between minDelay and maxDelay.
PacingCount ==
    \A n \in DOMAIN tasks :
        LET t == tasks[n]
        IN  t.kind = "hist" =>
              /\ (t.pc \in {"finished", "aborted"} /\ Len(t.msgs) >= 1)
                    => t.nBatch = (Len(t.msgs) - 1) \div StartConfig.batchSize
              /\ (t.pause # <<>> /\ t.pause[1].kind = "batch")
                    => t.pause[1].ms = StartConfig.batchDelay
              /\ (t.pause # <<>> /\ t.pause[1].kind = "jitter")
                    => /\ StartConfig.minDelay <= t.pause[1].ms
                       /\ t.pause[1].ms <= StartConfig.maxDelay

\* the newest socket was closed for a reason other than a logout
TransientClosed ==
    /\ socks # <<>>
    /\ socks[Len(socks)].state = "closed"
    /\ lastDisconnect # <<>>
    /\ lastDisconnect[1] # <<LoggedOut>>

\* C5: once a 'close' with status code loggedOut was handled, connectToWhatsApp
\* is never called again, no call is pending and no socket is made or changed.
TerminalStop ==
    /\ [](loggedOut => (pending = <<>> /\ Current = 0))
    /\ [][loggedOut' => (connectCalls' = connectCalls /\ pending' = pending
                         /\ Len(socks') = Len(socks))]_vars

\* a logout was handled on the second socket while a handler is still at work
TerminalStopWitness ==
    /\ loggedOut
    /\ connectCalls = 2
    /\ Len(socks) = 2
    /\ \E n \in DOMAIN tasks : tasks[n].pc \in {"pause", "download", "stream"}

DrainCompletes ==
    \A n \in DOMAIN tasks :
        (tasks[n].kind = "hist")
            => /\ tasks[n].pc # "aborted"
               /\ tasks[n].pc = "pause" => socks[tasks[n].sock].config = socks[1].config

\* C9: a drain in which a download or a write failed and that has ended has
\* processed every item of its array.
FailureIsolated ==
    \A n \in DOMAIN tasks :
        (tasks[n].kind = "hist" /\ tasks[n].failed
         /\ tasks[n].pc \in {"finished", "aborted"})
            => tasks[n].i = Len(tasks[n].msgs)

\* sanitize(S) + '_' + first 8 characters of I + '.txt', in the download directory
ExpectedTextName(S, I) ==
    DownloadDir \o sanitizeFilename(S, 50) \o <<"_">> \o SubSeq(I, 1, 8)
        \o <<".", "t", "x", "t">>

\* downloads/Ali_abcd1234.txt
AliFile ==
    <<"downloads/", "A", "l", "i", "_", "a", "b", "c", "d", "1", "2", "3", "4",
      ".", "t", "x", "t">>

\* task n enters the processing of a text status in this step
TextStep(n) ==
    /\ n \in DOMAIN tasks'
    /\ tasks'[n].i >= 1
    /\ n \in DOMAIN tasks => tasks[n].i # tasks'[n].i
    /\ IsArtifactEvent(tasks'[n].msgs[tasks'[n].i])
    /\ Msg(tasks'[n].msgs[tasks'[n].i]).image = <<>>

\* C10: the step that processes a text status with resolved sender name S, id
\* I and text T creates, if no file of the expected name exists and the write
\* does not throw, exactly that file with content T; if the file exists the
\* step changes no file.  Sender Ali and id abcd1234.. give Ali_abcd1234.txt,
\* which holds hello and is written once.
TextArtifact ==
    /\ [](AliFile \in DOMAIN files =>
            (files[AliFile].content = <<"h", "e", "l", "l", "o">>
             /\ files[AliFile].writes = 1))
    /\ [][\A n \in DOMAIN tasks' :
            TextStep(n) =>
              LET t == tasks'[n]
                  key == t.msgs[t.i]
                  S == getContactInfo(SenderJid(Msg(key)), socks[t.sock].contacts)
                  f == ExpectedTextName(S, Msg(key).id)
              IN  /\ t.pc = "resolved"
                  /\ t.last \in {"wrote", "exists", "failed"}
                  /\ (key = "mText" /\ S = <<"A", "l", "i">>) => f = AliFile
                  /\ f \in DOMAIN files <=> t.last = "exists"
                  /\ t.last = "wrote"
                        => files' = files @@ (f :> [content |-> Msg(key).text,
                                                    writes |-> 1, of |-> {key}])
                  /\ t.last # "wrote" => files' = files]_vars

\* hello was stored as Ali_abcd1234.txt and a later delivery found it there
TextArtifactWitness ==
    /\ AliFile \in DOMAIN files
    /\ files[AliFile].content = <<"h", "e", "l", "l", "o">>
    /\ \E n \in DOMAIN tasks :
          /\ tasks[n].last = "exists"
          /\ tasks[n].pc = "resolved"
          /\ tasks[n].msgs[tasks[n].i] = "mText"
          /\ socks[tasks[n].sock].contacts[J1] = <<cAli>>

\* the characters a file name must not contain
ReservedChars == {"/", "\\", "?", "%", "*", ":", "|", "\"", "<", ">"}

\* C11: every file name derived for a status has, after the download directory,
\* no path separator and no reserved character, and at most
\* 50 + 1 + 8 + 1 + 50 + 4 characters.
SafeDerivedName ==
    \A key \in Msgs :
        \A f \in names[key] :
            /\ \A i \in 2..Len(f) : f[i] \notin ReservedChars
            /\ Len(f) - 1 <= 50 + 1 + 8 + 1 + 50 + 4

\* task t is at a message of its array whose processing has begun
AtItem(t) == t.i \in 1..Len(t.msgs) /\ t.pc \in {"resolved", "download", "stream", "pause", "aborted"}

\* a broadcast-scoped message whose payload is neither an image nor a text
\* (plain or extended)
IsUnsupported(key) ==
    /\ IsStatus(key)
    /\ Msg(key).image = <<>>
    /\ ~Truthy(Msg(key).text)
    /\ ~Truthy(Msg(key).conversation)

\* C12: a status that is neither an image nor a text is never given a file
\* name, never in a download, and no file is written for it; its processing
\* ends as skipped, on the live channel and in a history drain.
UnsupportedSkipped ==
    /\ \A key \in Msgs :
          IsUnsupported(key) =>
            /\ names[key] = {}
            /\ \A f \in DOMAIN files : key \notin files[f].of
    /\ \A n \in DOMAIN tasks :
          (AtItem(tasks[n]) /\ IsUnsupported(tasks[n].msgs[tasks[n].i])) =>
            /\ tasks[n].pc \notin {"download", "stream"}
            /\ tasks[n].last = "skipped"

\* a history drain has skipped a video and goes on to its pause
UnsupportedSkippedWitness ==
    \E n \in DOMAIN tasks :
        /\ tasks[n].kind = "hist"
        /\ tasks[n].pc = "pause"
        /\ tasks[n].msgs[tasks[n].i] = "mVideo"
        /\ tasks[n].last = "skipped"

\* the text of a text status: message.conversation or extendedTextMessage.text
TextOf(key) == OrElse(Msg(key).conversation, Msg(key).text)

\* a broadcast-scoped plain or extended text message with a sender
IsTextEvent(key) ==
    /\ IsStatus(key)
    /\ Truthy(Msg(key).participant) \/ Truthy(Msg(key).keyParticipant)
    /\ Msg(key).image = <<>>
    /\ Truthy(TextOf(key))

\* C13: the processing of a plain or extended text status never ends as
\* skipped, and when it ends as stored a file holds its text.
TextNeverSkipped ==
    \A n \in DOMAIN tasks :
        LET t == tasks[n]
        IN  (AtItem(t) /\ t.pc = "resolved" /\ IsTextEvent(t.msgs[t.i])) =>
              /\ t.last # "skipped"
              /\ t.last \in {"wrote", "exists"} =>
                    \E f \in DOMAIN files :
                        t.msgs[t.i] \in files[f].of /\ files[f].content = TextOf(t.msgs[t.i])

\* a broadcast-scoped message with neither m.participant nor m.key.participant
HasNoSender(key) ==
    /\ IsStatus(key)
    /\ ~Truthy(Msg(key).participant)
    /\ ~Truthy(Msg(key).keyParticipant)

\* C14: a status without a sender is never given a file name, never in a
\* download, and no file is written for it; its processStatusMessage call
\* returns as skipped (it neither fails nor throws).
NoSenderSkipped ==
    /\ \A key \in Msgs :
          HasNoSender(key) =>
            /\ names[key] = {}
            /\ \A f \in DOMAIN files : key \notin files[f].of
    /\ \A n \in DOMAIN tasks :
          (AtItem(tasks[n]) /\ HasNoSender(tasks[n].msgs[tasks[n].i])) =>
            /\ tasks[n].pc \notin {"download", "stream"}
            /\ tasks[n].last = "skipped"

\* a live handler has skipped a senderless image, nothing having been fetched
\* or written for it, and has gone on to the next message of its notification
NoSenderSkippedWitness ==
    \E n \in DOMAIN tasks :
        /\ tasks[n].kind = "live"
        /\ tasks[n].msgs = <<"mNoSender", "mImage">>
        /\ tasks[n].i = 2
        /\ tasks[n].pc = "download"
        /\ tasks[n].last = "skipped"
        /\ names["mNoSender"] = {}
        /\ files = <<>>

\* number of pauses task t has begun
Pauses(t) == t.nBatch + t.nJitter

\* C15: a message that is not broadcast-scoped is never given a file name and
\* no file is written for it; a live handler is never at such a message; a
\* drain holds broadcast-scoped items only, begins one pause per processed
\* item, and takes a batch pause only when the number of processed
\* broadcast-scoped items is a multiple of batchSize.
NonBroadcastIgnored ==
    /\ \A key \in Msgs :
          ~IsStatus(key) =>
            /\ names[key] = {}
            /\ \A f \in DOMAIN files : key \notin files[f].of
    /\ \A n \in DOMAIN tasks :
          LET t == tasks[n]
          IN  /\ (t.kind = "live" /\ t.pc \in {"resolved", "download", "stream"})
                    => IsStatus(t.msgs[t.i])
              /\ t.kind = "hist" =>
                    /\ \A j \in 1..Len(t.msgs) : IsStatus(t.msgs[j])
                    /\ t.pc = "pause" => Pauses(t) = t.i
                    /\ t.pc \in {"resolved", "download", "stream", "aborted"}
                          => Pauses(t) = t.i - 1
                    /\ t.pc = "finished" => Pauses(t) = Len(t.msgs)
                    /\ (t.pc = "pause" /\ t.pause[1].kind = "batch")
                          => t.i % StartConfig.batchSize = 0

\* the drain of a replay of four messages, one of them a chat message, has
\* ended after three pauses, one of them a batch pause
NonBroadcastIgnoredWitness ==
    \E n \in DOMAIN tasks :
        /\ tasks[n].kind = "hist"
        /\ tasks[n].pc = "finished"
        /\ Len(tasks[n].msgs) = 3
        /\ tasks[n].nBatch = 1
        /\ tasks[n].nJitter = 2
        /\ names["mChat"] = {}

\* C18: a drain moves from item i to item i + 1 of its array, and to no other,
\* and only in the step in which the timer of the pause after item i fires,
\* the processing of item i having ended before that pause began; a drain
\* starts at the first item of the filtered replay array.
DrainInOrder ==
    /\ [](\A n \in DOMAIN tasks :
            (tasks[n].kind = "hist" /\ tasks[n].pc = "pause")
                => (tasks[n].last # "none" /\ tasks[n].pause # <<>>))
    /\ [][\A n \in DOMAIN tasks' :
            tasks'[n].kind = "hist" =>
              IF n \in DOMAIN tasks
              THEN /\ tasks'[n].msgs = tasks[n].msgs
                   /\ tasks'[n].i # tasks[n].i =>
                        /\ tasks'[n].i = tasks[n].i + 1
                        /\ tasks[n].pc = "pause"
                        /\ tasks'[n].pause = <<>>
              ELSE /\ \E b \in HistoryBatches : tasks'[n].msgs = SelectSeq(b, IsStatus)
                   /\ tasks'[n].i = IF tasks'[n].msgs = <<>> THEN 0 ELSE 1]_vars

\* a drain is at its third item, after a pause of each kind
DrainInOrderWitness ==
    \E n \in DOMAIN tasks :
        /\ tasks[n].kind = "hist"
        /\ tasks[n].i = 3
        /\ tasks[n].pc = "resolved"
        /\ tasks[n].nBatch = 1
        /\ tasks[n].nJitter = 1

\* task t has begun the processing of a broadcast-scoped message
HasBegun(t) == t.pc # "start" /\ \E j \in 1..t.i : IsStatus(t.msgs[j])

\* C17: while a message of an earlier messages.upsert notification is still
\* being processed (its download is awaited), no message of a later
\* notification has begun or ended its processing.
LiveInArrivalOrder ==
    \A n1, n2 \in DOMAIN tasks :
        (/\ n1 < n2
         /\ tasks[n1].kind = "live"
         /\ tasks[n2].kind = "live"
         /\ tasks[n1].pc \in {"download", "stream"})
            => ~HasBegun(tasks[n2])

\* a historical item is in the fetch/store pipeline: its download is awaited
InPipeline(t) == t.kind = "hist" /\ t.pc \in {"download", "stream"}

\* C19: at no time are two historical items in the fetch/store pipeline.
OneHistoricalItemAtATime ==
    Cardinality({n \in DOMAIN tasks : InPipeline(tasks[n])}) <= 1

\* a saveCreds call has not completed yet
Saving == \E n \in DOMAIN tasks : tasks[n].pc = "saving"

\* this step issues a media fetch
FetchIssued ==
    \E n \in DOMAIN tasks' :
        /\ tasks'[n].pc = "download"
        /\ n \in DOMAIN tasks => tasks[n].pc # "download"

\* C16: while a saveCreds call has not completed, no step issues a media fetch
\* or makes a socket (a new connect).
SavedBeforeTraffic ==
    [][Saving => (~FetchIssued /\ Len(socks') = Len(socks))]_vars

\* a history drain is in a pacing pause or awaits a fetch
DrainWaiting ==
    \E n \in DOMAIN tasks :
        tasks[n].kind = "hist" /\ tasks[n].pc \in {"pause", "download", "stream"}

\* C20: in the step that delivers a live notification while a drain is in a
\* pause or awaits a fetch, the first broadcast-scoped message of the
\* notification is processed: a text is written (or found, or its write fails)
\* and the fetch of an image is issued (or its file found); the drain is left
\* as it was; and a live handler never pauses and is never held at its start.
LiveNotBlocked ==
    /\ [](\A n \in DOMAIN tasks :
            tasks[n].kind = "live" =>
              /\ tasks[n].pc \in {"resolved", "download", "stream", "finished"}
              /\ Pauses(tasks[n]) = 0
              /\ tasks[n].pause = <<>>)
    /\ [][\A n \in DOMAIN tasks' \ DOMAIN tasks :
            (tasks'[n].kind = "live" /\ DrainWaiting) =>
              LET t == tasks'[n]
                  j == NextStatus(t.msgs, 0)
              IN  /\ \A m \in DOMAIN tasks : tasks'[m] = tasks[m]
                  /\ j # 0 =>
                        /\ t.i = j
                        /\ IF Msg(t.msgs[j]).image # <<>>
                           THEN t.pc = "download" \/ (t.pc = "resolved" /\ t.last = "exists")
                           ELSE t.pc = "resolved" /\ t.last \in {"wrote", "exists", "failed"}
                        /\ t.last = "wrote" =>
                              \E f \in DOMAIN files' : t.msgs[j] \in files'[f].of]_vars

\* a drain is in its first pause and a live notification delivered after the
\* replay has had its text status stored or found stored
LiveNotBlockedWitness ==
    /\ Len(tasks) = 2
    /\ tasks[1].kind = "hist"
    /\ tasks[1].pc = "pause"
    /\ tasks[1].i = 1
    /\ tasks[2].kind = "live"
    /\ tasks[2].pc = "resolved"
    /\ tasks[2].msgs[tasks[2].i] = "mText"
    /\ tasks[2].last \in {"wrote", "exists"}

\* C21: while a drain is in a pause or awaits a fetch, a 'close' update of the
\* current socket can be handled at once, and the step that handles it makes
\* the reconnect call (or, for a logout, the terminal stop) and leaves the
\* drain as it is.
CloseHandledDuringDrain ==
    /\ []((alive /\ Current # 0 /\ DrainWaiting) =>
            /\ ENABLED ConnectionClose(<<LoggedOut>>)
            /\ connectCalls < MaxConnects => ENABLED ConnectionClose(<<>>))
    /\ [][(DrainWaiting /\ Current # 0 /\ Current' = 0) =>
            /\ tasks' = tasks
            /\ IF lastDisconnect' = << <<LoggedOut>> >>
               THEN loggedOut' /\ pending' = pending /\ connectCalls' = connectCalls
               ELSE /\ connectCalls' = connectCalls + 1
                    /\ pending' = Append(pending, <<>>)]_vars

\* the socket of a drain was closed and the reconnect call made while the drain
\* is still awaiting its fetch
CloseHandledDuringDrainWitness ==
    \E n \in DOMAIN tasks :
        /\ tasks[n].kind = "hist"
        /\ tasks[n].pc = "download"
        /\ socks[tasks[n].sock].state = "closed"
        /\ connectCalls = 2
        /\ pending # <<>>

\* C22: an image status whose fetch stream yields a chunk and ends without an
\* error is stored: its processing never ends in the catch block, and the file
\* written for an image holds what the stream delivered.
ChunksStored ==
    \A n \in DOMAIN tasks :
        (AtItem(tasks[n]) /\ tasks[n].pc = "resolved" /\ tasks[n].last = "typeerror") =>
            \E f \in DOMAIN files :
                /\ tasks[n].msgs[tasks[n].i] \in files[f].of
                /\ files[f].content # <<>>

\* the name the directory `contacts` owes for jid: the entry's name, else the
\* entry's notify name, else the characters of jid before its first '@'
BestName(jid, contacts) ==
    LET e == contacts[jid]
        k == CHOOSE k \in 0..Len(jid) :
                 /\ k = Len(jid) \/ jid[k + 1] = "@"
                 /\ \A i \in 1..k : jid[i] # "@"
    IN  IF e # <<>> /\ e[1].name \notin {Undefined, <<>>} THEN e[1].name
        ELSE IF e # <<>> /\ e[1].notify \notin {Undefined, <<>>} THEN e[1].notify
        ELSE SubSeq(jid, 1, k)

\* C23: on every directory a socket can hold, getContactInfo returns a
\* non-empty name for a sender jid: the entry's display name if it has one,
\* otherwise the entry's notify name, otherwise the part of the jid before '@';
\* and the file name derived for a text status is built from that name.
ResolveUsable ==
    /\ [](\A s \in DOMAIN socks : \A j \in Jids :
            LET r == getContactInfo(j, socks[s].contacts)
            IN  /\ r = BestName(j, socks[s].contacts)
                /\ r # Undefined
                /\ Len(r) >= 1)
    /\ [][\A n \in DOMAIN tasks' :
            TextStep(n) =>
              LET t == tasks'[n]
                  key == t.msgs[t.i]
                  S == BestName(SenderJid(Msg(key)), socks[t.sock].contacts)
              IN  ExpectedTextName(S, Msg(key).id) \in names'[key]]_vars

\* a text status was stored under the notify name of a sender whose entry has
\* an empty display name
ResolveUsableWitness ==
    \E n \in DOMAIN tasks :
        /\ tasks[n].pc = "resolved"
        /\ tasks[n].last = "wrote"
        /\ tasks[n].msgs[tasks[n].i] = "mText"
        /\ socks[tasks[n].sock].contacts[J1] = <<cEmptyName>>
        /\ ExpectedTextName(<<"A", "l">>, mText.id) \in DOMAIN files

\* C24: once a socket made by a reconnect is open, every jid that has an entry
\* in the directory of an earlier socket of the process resolves to the same
\* name as it did there.
DirectorySurvivesReconnect ==
    \A s \in DOMAIN socks : \A j \in Jids :
        (s < Len(socks) /\ socks[Len(socks)].state = "open"
           /\ socks[s].contacts[j] # <<>>) =>
            getContactInfo(j, socks[Len(socks)].contacts)
                = getContactInfo(j, socks[s].contacts)

\* C25: every GET /files/:filename response is either 200 with the content of
\* a regular file that is a direct child of the download directory, or 404
\* with 'File not found', whatever the filename: a file of ROOT_DIR, of a
\* subdirectory or outside ROOT_DIR is never sent.
ServedInsideDownloads ==
    \A n \in DOMAIN tasks :
        LET r == tasks[n]
        IN  IF r.status = 200
            THEN \E p \in DOMAIN files :
                    /\ Len(p) = 2
                    /\ p[1] = <<"downloads">>
                    /\ \A i \in DOMAIN p[2] : p[2][i] # "/"
                    /\ p[2] \notin {<<".">>, <<".", ".">>}
                    /\ r.body = files[p].content
            ELSE r.status = 404 /\ r.body = <<"File not found">>

\* the request for ../a was answered with the status file downloads/a, not
\* with the application file a of ROOT_DIR
ServedInsideDownloadsWitness ==
    \E n \in DOMAIN tasks :
        /\ tasks[n].filename = <<".", ".", "/", "a">>
        /\ tasks[n].status = 200
        /\ tasks[n].body = <<"status">>
        /\ << <<"a">> >> \in DOMAIN files

\* C26: a drain has begun exactly one pause for every item whose processing
\* has ended, whatever the outcome of the item, and a drain that has ended,
\* finished or not, has begun as many pauses as its array has items.
OnePausePerItem ==
    \A n \in DOMAIN tasks :
        LET t == tasks[n]
        IN  t.kind = "hist" =>
              /\ t.pc \in {"resolved", "download", "stream"} => Pauses(t) = t.i - 1
              /\ t.pc = "pause" => Pauses(t) = t.i
              /\ t.pc \in {"finished", "aborted"} => Pauses(t) = Len(t.msgs)

\* task n enters the processing of a broadcast image status with a sender in
\* this step
ImageStep(n) ==
    /\ n \in DOMAIN tasks'
    /\ tasks'[n].kind \in {"live", "hist"}
    /\ tasks'[n].i >= 1
    /\ n \in DOMAIN tasks => tasks[n].i # tasks'[n].i
    /\ IsArtifactEvent(tasks'[n].msgs[tasks'[n].i])
    /\ Msg(tasks'[n].msgs[tasks'[n].i]).image # <<>>

\* C27: the step that begins the processing of an image status whose derived
\* file name exists on disk issues no media fetch and changes no file; the
\* processing ends in that step as 'already downloaded'.
ExistingImageNotFetched ==
    [][\A n \in DOMAIN tasks' :
         (ImageStep(n)
          /\ Classify(Msg(tasks'[n].msgs[tasks'[n].i]),
                      socks[tasks'[n].sock].contacts).filename \in DOMAIN files) =>
            /\ tasks'[n].pc = "resolved"
            /\ tasks'[n].last = "exists"
            /\ ~FetchIssued
            /\ files' = files]_vars

\* the image status was stored once and a later delivery of it found the file
ExistingImageNotFetchedWitness ==
    \E n \in DOMAIN tasks : \E f \in DOMAIN files :
        /\ tasks[n].msgs = <<"mImage">>
        /\ tasks[n].pc = "resolved"
        /\ tasks[n].last = "exists"
        /\ files[f].of = {"mImage"}
        /\ files[f].writes = 1
        /\ f \in names["mImage"]

\* C28: in the backend pipeline, the step that begins the processing of a text
\* or image status whose derived file exists on disk issues no media fetch and
\* changes no file.
BackendRedeliveryUntouched ==
    [][\A n \in DOMAIN tasks' :
         ((TextStep(n) \/ ImageStep(n))
          /\ Classify(Msg(tasks'[n].msgs[tasks'[n].i]),
                      socks[tasks'[n].sock].contacts).filename \in DOMAIN files) =>
            /\ ~FetchIssued
            /\ files' = files]_vars

\* the sockets that are connecting or open
LiveSockets == {s \in DOMAIN socks : socks[s].state # "closed"}

\* number of sockets closed for a reason other than a logout
TransientCloses ==
    Cardinality(DOMAIN socks \ LiveSockets) - (IF loggedOut THEN 1 ELSE 0)

\* C29: at most one session is being set up, connecting or open at any time;
\* connectToWhatsApp was called once at start and once for every close that was
\* not a logout, and every call makes at most one socket; a step that calls
\* connectToWhatsApp is the handling of such a close of the current socket.
OneSession ==
    /\ [](/\ Cardinality(LiveSockets) + Len(pending) <= 1
          /\ connectCalls = 1 + TransientCloses
          /\ Len(socks) + Len(pending) = connectCalls)
    /\ [][connectCalls' # connectCalls =>
            /\ connectCalls' = connectCalls + 1
            /\ Current # 0
            /\ TransientClosed']_vars

\* the second session is open after one transient close, the first is closed
OneSessionWitness ==
    /\ Len(socks) = 2
    /\ socks[1].state = "closed"
    /\ socks[2].state = "open"
    /\ connectCalls = 2
    /\ TransientCloses = 1
    /\ pending = <<>>

\* the message has a sender and both an image payload and a text payload
HasBothPayloads(key) ==
    /\ IsStatus(key)
    /\ Truthy(SenderJid(Msg(key)))
    /\ Msg(key).image # <<>>
    /\ Truthy(Msg(key).text)

\* C30: a status that carries both a text and an image is handled as a text:
\* every file name derived for it ends in .txt, no handler awaits a fetch for
\* it, and a file written for it holds its text.
TextBeforeImage ==
    \A key \in Msgs :
        HasBothPayloads(key) =>
            /\ \A f \in names[key] : SubSeq(f, Len(f) - 3, Len(f)) = <<".", "t", "x", "t">>
            /\ \A n \in DOMAIN tasks :
                  (AtItem(tasks[n]) /\ tasks[n].msgs[tasks[n].i] = key)
                      => tasks[n].pc \notin {"download", "stream"}
            /\ \A f \in Artifacts(key) : files[f].content = Msg(key).text

\* the entry the directory owes for jid j after the contacts of `batch` were
\* upserted: the last contact of the batch with that id, else the old entry
EntryAfter(old, batch, j) ==
    LET idx == {i \in DOMAIN batch : batch[i].id = j}
    IN  IF idx = {} THEN old[j]
        ELSE <<batch[CHOOSE i \in idx : \A k \in idx : k <= i]>>

\* C31: a step that changes a directory changes the directory of the current
\* socket only, and for some contacts.upsert batch every id of the batch then
\* has the last contact of the batch with that id as its entry and every other
\* id keeps its entry; an entry is always filed under the id it carries.
LastWriteWins ==
    /\ [](\A s \in DOMAIN socks : \A j \in Jids :
            socks[s].contacts[j] # <<>> =>
                (Len(socks[s].contacts[j]) = 1 /\ socks[s].contacts[j][1].id = j))
    /\ [][\A s \in DOMAIN socks :
            (s \in DOMAIN socks' /\ socks'[s].contacts # socks[s].contacts) =>
                /\ s = Current
                /\ \E batch \in DirContactBatches : \A j \in Jids :
                      socks'[s].contacts[j] = EntryAfter(socks[s].contacts, batch, j)]_vars

\* after [name only, no name] for the first jid and a contact of the second
\* jid, the first jid has the nameless contact and the second its own
LastWriteWinsWitness ==
    \E s \in DOMAIN socks :
        /\ socks[s].contacts[J1] = <<cBare>>
        /\ socks[s].contacts[J2] = <<cTwo>>

\* handler n is a drain that was started on the first socket
DrainOnFirst(n) ==
    IF n \in DOMAIN tasks THEN tasks[n].kind = "hist" /\ tasks[n].sock = 1 ELSE FALSE

\* handler n has reached the end of its array
DrainFinished(n) == IF n \in DOMAIN tasks THEN tasks[n].pc = "finished" ELSE FALSE

\* C32: every drain started on the first socket eventually reaches 'Finished
\* processing', when every fetch settles and every timer fires.
FirstDrainTerminates ==
    \A n \in 1..MaxRaceTasks :
        [](DrainOnFirst(n) => <>DrainFinished(n))

\* C33: the existence check and the write of a text status are one step, so
\* every file of a text status was written exactly once, however the live
\* handlers and the drain interleave; a handler is never suspended inside the
\* processing of a text status.
TextWrittenOnce ==
    /\ \A f \in DOMAIN files :
          (\E key \in files[f].of : Msg(key).image = <<>>) => files[f].writes = 1
    /\ \A n \in DOMAIN tasks :
          (tasks[n].pc \in {"download", "stream"})
              => Msg(tasks[n].msgs[tasks[n].i]).image # <<>>

\* the drain stored the text status and is in its pause; the live handler was
\* given the same status meanwhile and found the file
TextWrittenOnceWitness ==
    /\ Len(tasks) = 2
    /\ tasks[1].kind = "hist"
    /\ tasks[1].pc = "pause"
    /\ tasks[1].msgs[tasks[1].i] = "mText"
    /\ tasks[2].kind = "live"
    /\ tasks[2].pc = "resolved"
    /\ tasks[2].msgs[tasks[2].i] = "mText"
    /\ tasks[2].last = "exists"
    /\ \A f \in Artifacts("mText") : files[f].writes = 1
    /\ Cardinality(Artifacts("mText")) = 1

\* C34: a status whose processing ended as 'already downloaded' has a file
\* that was written for that same status.
OwnArtifact ==
    \A n \in DOMAIN tasks :
        (AtItem(tasks[n]) /\ tasks[n].pc = "resolved" /\ tasks[n].last = "exists")
            => Artifacts(tasks[n].msgs[tasks[n].i]) # {}

\* C35: the step that handles a 'close' whose lastDisconnect has no error, or
\* an error without a status code, calls connectToWhatsApp and does not set
\* the terminal stop; such a close is never the last one recorded after a
\* logout.
CodelessCloseReconnects ==
    /\ [](lastDisconnect = << <<>> >> => ~loggedOut)
    /\ [][(Current # 0 /\ Current' = 0 /\ lastDisconnect' = << <<>> >>) =>
            /\ connectCalls' = connectCalls + 1
            /\ pending' = Append(pending, <<>>)
            /\ ~loggedOut']_vars

\* a close that carried no status code was handled while a handler was at
\* work: the process goes on and the second connect is under way
CodelessCloseReconnectsWitness ==
    /\ lastDisconnect = << <<>> >>
    /\ socks[1].state = "closed"
    /\ ~loggedOut
    /\ pending = << <<>> >>
    /\ \E n \in DOMAIN tasks : tasks[n].pc \in {"pause", "download", "stream"}

\* C37: for every file name the store derives for a sender named S and a
\* status with id I, parseFilename returns sanitize(S) as senderId and the
\* first 8 characters of I as uniqueId.
ParseInvertsNaming ==
    \A n \in DOMAIN tasks :
        tasks[n].kind = "parse" =>
            /\ tasks[n].parsed.senderId = sanitizeFilename(tasks[n].name, 50)
            /\ tasks[n].parsed.uniqueId = SubSeq(Msg(tasks[n].key).id, 1, 8)

\* C38: sanitizeFilename(s, m) of an absent or empty s is empty; its result has
\* at most m characters, none of them whitespace or of the removed class, and
\* sanitizeFilename(result, m) is the result again.
SanitizeIdempotentBounded ==
    \A n \in DOMAIN tasks :
        tasks[n].kind = "sanitize" =>
            LET r == tasks[n]
            IN  /\ r.again = r.result
                /\ Len(r.result) <= r.maxLength
                /\ \A i \in DOMAIN r.result :
                      r.result[i] \notin {" ", "\t"} \cup ReservedChars
                /\ r.str \in {Undefined, <<>>} => r.result = <<>>

\* a string with a reserved character and a run of two kinds of whitespace was
\* cut to two characters
SanitizeIdempotentBoundedWitness ==
    \E n \in DOMAIN tasks :
        /\ tasks[n].kind = "sanitize"
        /\ tasks[n].str = <<"/", " ", "\t">>
        /\ tasks[n].result = <<"_">>
        /\ tasks[n].again = <<"_">>

\* C36: no file name is enqueued while an entry of that name that is not in
\* error exists: a placeholder entry (status processing, made when its file is
\* enqueued) is the only entry of its file name that is not in error.
EnqueuedOnce ==
    \A i, j \in DOMAIN sellerEntries :
        /\ i # j
        /\ sellerEntries[i].imageFileName = sellerEntries[j].imageFileName
        /\ sellerEntries[i].status = "processing"
        => sellerEntries[j].status = "error"

====
